---------------------------- MODULE Spec2Model ----------------------------
(***************************************************************************)
(* A model of backupmgr: the due-date scheduler (backup.py), the backup    *)
(* orchestrator (backup.py, application.py, configuration.py), the restore *)
(* flow (application.py, archive_specifiers.py), the pruning engine        *)
(* (pruning_engine.py, time_utilities.py), the prune and list flows       *)
(* (application.py), the archive specifiers (archive_specifiers.py), the   *)
(* tarsnap backend (backup_backends/tarsnap.py), the configuration         *)
(* (configuration.py) and the registry of backend types                    *)
(* (backend_types.py).                                                     *)
(*                                                                         *)
(* Time.  A datetime is a record [day, sec, us]: the local calendar day    *)
(* counted from 1970-01-01 (day 0, a Thursday), the second of that day and *)
(* the microsecond of that second.  The local timezone is a fixed offset   *)
(* from UTC (no daylight-saving transitions are modelled).  A POSIX        *)
(* timestamp is a whole number of seconds since the epoch: the archives    *)
(* are named by time.mktime, which gives whole seconds.                    *)
(***************************************************************************)
EXTENDS Integers, Sequences, FiniteSets, TLC

VARIABLES
    \* ---- scheduler probe (specification SpecSched)
    timespec,       \* the timespec handed to next_due_run
    since,          \* the datetime handed to next_due_run
    tgt,            \* what next_due_run returned, or None
    spc,            \* "ready" | "returned"
    \* ---- the `backup` verb (specification Spec)
    utcoffset,          \* the local timezone: seconds east of UTC
    statefile,          \* the persisted RunState: backup name -> timestamp
    statefile_before,   \* the persisted RunState when the invocation began
    state_mtime,        \* os.stat(statefile_path).st_mtime
    config_mtime,       \* os.stat(configfile).st_mtime
    configured_backups, \* the configured Backups, in configuration order
    now,                \* BackupSet.now
    state,              \* BackupSet.state, or None before it is loaded
    pc,                 \* "start" | "loaded" | "loop" | "done" | "crashed"
    backups,            \* perform_backups: the due backups
    bi,                 \* perform_backups: position in backups
    bj,                 \* Backup.perform: position in self.backends
    success,            \* Backup.perform: success
    backup_successes,   \* perform_backups: backup_successes
    calls,              \* every backend.perform call made, with its result
    returned,           \* every Backup.perform call made, with its result
    new_state,          \* save_state_given_new_backups: new_state, or None
    \* ---- the `restore` verb (specification SpecRestore)
    opt_backup,     \* config_options.backup
    opt_backend,    \* config_options.backend
    archive_spec,   \* config_options.archive_spec, with what it parses to
    listing,        \* what the backend lists for the backup, in its order
    rpc,            \* "start" | "resolved" | "built" | "matched" | "done" | "failed"
    spec,           \* restore_backup: spec, or None
    matches,        \* restore_backup: matches
    restored,       \* the archives archive.restore was invoked on
    raised,         \* the exception restore_backup raised, or None
    \* ---- the pruning engine probe (specification SpecPrunable)
    engine_archives, \* the listing handed to prunable_archives
    pruning_config, \* the PruningConfig of the engine
    local_now,      \* time_utilities.local_timestamp()
    engine,         \* what prunable_archives computed, or None
    epc,            \* "ready" | "returned"
    \* ---- the `prune` verb (specification SpecPrune)
    pruning_configuration,  \* backup name -> PruningConfig, where configured
    store,          \* <<backup, backend>> -> the archives the backend holds
    token_map,      \* backend_to_primed_list_token_map: the lists primed
    prune_pc,       \* "start" | "loop" | "pruning" | "done"
    pb,             \* prune_archives: position in the configured backups
    pk,             \* prune_archives: position in the backup's backends
    archives_to_prune,      \* prune_archives: archives_to_prune
    pd,             \* PruningEngine.prune_archives: position in archives
    destroy_calls,  \* every archive.destroy call made, with its result
    enumerations,   \* every remote enumeration issued (tarsnap --list-archives)
    \* ---- the specifier probe (specification SpecSpecifier)
    probe,          \* what specifier_str was written from
    specifier_str,  \* the string handed to ArchiveSpecifier
    concrete_order, \* the order in which CONCRETE_SPECIFIERS is iterated
    built,          \* the specifier built, or NoSpecifier
    probe_archive,  \* the archive handed to evaluate
    probe_ordinal,  \* the position handed to evaluate
    evaluated,      \* <<what evaluate returned>>, or <<>>
    xpc,            \* "ready" | "built" | "raised" | "evaluated"
    \* ---- the archives of one tarsnap key (specification SpecStore)
    tarsnap_archives,       \* what tarsnap holds, in listing order
    performed,      \* <<what perform returned>>, if it was the last call
    listed_for,     \* [backend, backup_name] listed, if it was the last call
    results,        \* what existing_archives_for_name returned
    \* ---- an invocation, from the start to the exit (specification SpecRun)
    run_config_file,        \* /etc/backupmgr.conf, and what is wrong with it
    run_verb,       \* config_options.verb
    run_pc,         \* where Application.run is
    run_config,     \* what Config.__init__ came to
    run_raised,     \* the exception raised within run
    run_ops,        \* the operations invoked on backends
    state_written,  \* save_state has written the state file
    run_ok,         \* <<what the verb returned>>, <<>> for None
    exit_status,    \* <<the status of sys.exit>>
    finalized,      \* finalize has run
    \* ---- the registry of backend types (specification SpecRegistry)
    BACKEND_TYPES,  \* backend_types._BACKEND_TYPES: name -> type
    registry_log,   \* every call made on the registry, with its outcome
    \* ---- one TarsnapBackend.perform (specification SpecPerform)
    perform_paths,  \* paths: the (path, name) items in iteration order
    tmpdir,         \* the directory of mkdtemp: whether it exists, its links
    perform_pc,     \* where perform is
    perform_i,      \* position in paths.items() of the loop running
    perform_code,   \* <<proc.wait()>>, or <<>>
    perform_pending,        \* what the finally clause goes on to: a return
                            \* value, an exception, or None
    perform_ret,    \* <<what perform returned>>, or <<>>
    \* ---- the `list` verb (specification SpecList)
    opt_before,     \* config_options.before, or None
    opt_after,      \* config_options.after, or None
    list_pc,        \* "start" | "loop" | "done"
    lb,             \* list_archives: position in the configured backups
    printed,        \* the archive lines written to stdout
    tpc             \* the last call: "ready" | "performed" | "listed" | "raised"

schedVars == <<timespec, since, tgt, spc>>

diskVars == <<statefile, state_mtime, config_mtime>>

flowVars == <<utcoffset, statefile, statefile_before, state_mtime, config_mtime,
              configured_backups, now, state, pc, backups, bi, bj, success,
              backup_successes, calls, returned, new_state>>

restoreVars == <<opt_backup, opt_backend, archive_spec, listing, rpc, spec,
                 matches, restored, raised>>

engineVars == <<engine_archives, pruning_config, local_now, engine, epc>>

pruneVars == <<pruning_configuration, store, token_map, prune_pc, pb, pk,
               archives_to_prune, pd, destroy_calls, enumerations>>

\* the variables of the specifications that follow the first three
specifierVars == <<probe, specifier_str, concrete_order, built, probe_archive,
                   probe_ordinal, evaluated, xpc>>

storeVars == <<tarsnap_archives, performed, listed_for, results, tpc>>

runVars == <<run_config_file, run_verb, run_pc, run_config, run_raised, run_ops,
             state_written, run_ok, exit_status, finalized>>

registryVars == <<BACKEND_TYPES, registry_log>>

stagingVars == <<perform_paths, tmpdir, perform_pc, perform_i, perform_code,
                 perform_pending, perform_ret>>

listVars == <<opt_before, opt_after, list_pc, lb, printed>>

lateVars == <<registryVars, stagingVars, listVars>>

restVars == <<engineVars, pruneVars, specifierVars, storeVars, runVars,
              lateVars>>

vars == <<schedVars, flowVars, restoreVars, restVars>>

None == "None"

\* the scheduler probe is not running
SchedIdle ==
    /\ timespec = None
    /\ since = None
    /\ tgt = None
    /\ spc = "idle"

\* the `restore` verb is not running
RestoreIdle ==
    /\ opt_backup = 0
    /\ opt_backend = None
    /\ archive_spec = None
    /\ listing = <<>>
    /\ rpc = "idle"
    /\ spec = None
    /\ matches = <<>>
    /\ restored = <<>>
    /\ raised = None

\* the pruning engine probe is not running
EngineIdle ==
    /\ engine_archives = <<>>
    /\ pruning_config = None
    /\ local_now = None
    /\ engine = None
    /\ epc = "idle"

\* the `prune` verb is not running
PruneIdle ==
    /\ pruning_configuration = <<>>
    /\ store = <<>>
    /\ token_map = <<>>
    /\ prune_pc = "idle"
    /\ pb = 0
    /\ pk = 0
    /\ archives_to_prune = <<>>
    /\ pd = 0
    /\ destroy_calls = <<>>
    /\ enumerations = <<>>

\* the specifier probe is not running
SpecifierIdle ==
    /\ probe = None
    /\ specifier_str = <<>>
    /\ concrete_order = <<>>
    /\ built = None
    /\ probe_archive = None
    /\ probe_ordinal = 0
    /\ evaluated = <<>>
    /\ xpc = "idle"

\* no tarsnap key is in use
StoreIdle ==
    /\ tarsnap_archives = <<>>
    /\ performed = <<>>
    /\ listed_for = None
    /\ results = <<>>
    /\ tpc = "idle"

\* no invocation is followed
RunIdle ==
    /\ run_config_file = None
    /\ run_verb = None
    /\ run_pc = "idle"
    /\ run_config = None
    /\ run_raised = None
    /\ run_ops = <<>>
    /\ state_written = FALSE
    /\ run_ok = <<>>
    /\ exit_status = <<>>
    /\ finalized = FALSE

\* the registry is not followed
RegistryIdle ==
    /\ BACKEND_TYPES = <<>>
    /\ registry_log = <<>>

\* no perform is followed
StagingIdle ==
    /\ perform_paths = <<>>
    /\ tmpdir = None
    /\ perform_pc = "idle"
    /\ perform_i = 0
    /\ perform_code = <<>>
    /\ perform_pending = None
    /\ perform_ret = <<>>

\* the `list` verb is not running
ListIdle ==
    /\ opt_before = None
    /\ opt_after = None
    /\ list_pc = "idle"
    /\ lb = 0
    /\ printed = <<>>

LateIdle == RegistryIdle /\ StagingIdle /\ ListIdle

RestIdle ==
    EngineIdle /\ PruneIdle /\ SpecifierIdle /\ StoreIdle /\ RunIdle /\ LateIdle

\* the `backup` verb is not running
FlowIdle ==
    /\ statefile = <<>>
    /\ statefile_before = <<>>
    /\ state_mtime = 0
    /\ config_mtime = 0
    /\ now = None
    /\ state = None
    /\ pc = "idle"
    /\ backups = <<>>
    /\ bi = 0
    /\ bj = 0
    /\ success = TRUE
    /\ backup_successes = <<>>
    /\ calls = <<>>
    /\ returned = <<>>
    /\ new_state = None

-----------------------------------------------------------------------------
(* The calendar of Python's datetime, as the code uses it.                 *)

SecondsPerDay == 24 * 60 * 60

IsLeap(y) == (y % 4 = 0) /\ ((y % 100 # 0) \/ (y % 400 = 0))

\* calendar.monthrange(year, month)[1]
DaysInMonth(y, m) ==
    IF m = 2 THEN (IF IsLeap(y) THEN 29 ELSE 28)
    ELSE IF m \in {4, 6, 9, 11} THEN 30 ELSE 31

\* the day number of a civil date (proleptic Gregorian), 1970-01-01 = 0
DaysFromCivil(y, m, d) ==
    LET yy  == IF m <= 2 THEN y - 1 ELSE y
        era == yy \div 400
        yoe == yy - era * 400
        mp  == IF m > 2 THEN m - 3 ELSE m + 9
        doy == (153 * mp + 2) \div 5 + d - 1
        doe == yoe * 365 + yoe \div 4 - yoe \div 100 + doy
    IN  era * 146097 + doe - 719468

\* the civil date of a day number
CivilFromDays(n) ==
    LET z   == n + 719468
        era == z \div 146097
        doe == z - era * 146097
        yoe == (doe - doe \div 1460 + doe \div 36524 - doe \div 146096) \div 365
        doy == doe - (365 * yoe + yoe \div 4 - yoe \div 100)
        mp  == (5 * doy + 2) \div 153
        d   == doy - (153 * mp + 2) \div 5 + 1
        m   == IF mp < 10 THEN mp + 3 ELSE mp - 9
        y   == yoe + era * 400
    IN  [year |-> IF m <= 2 THEN y + 1 ELSE y, month |-> m, day |-> d]

\* datetime.weekday(): Monday is 0, Sunday is 6
Weekday(n) == (n + 3) % 7

Datetime(d, s, u) == [day |-> d, sec |-> s, us |-> u]

\* a < b on datetimes of one timezone
DtLess(a, b) ==
    \/ a.day < b.day
    \/ a.day = b.day /\ a.sec < b.sec
    \/ a.day = b.day /\ a.sec = b.sec /\ a.us < b.us

DtLeq(a, b) == a = b \/ DtLess(a, b)

-----------------------------------------------------------------------------
(* backup.py: the timespec tokens.                                         *)

WEEKDAYS == <<"MONDAY", "TUESDAY", "WEDNESDAY", "THURSDAY", "FRIDAY",
              "SATURDAY", "SUNDAY">>
MONTHLY == "MONTHLY"
WEEKLY == "WEEKLY"

WeekdayTokens == {WEEKDAYS[i] : i \in 1..7}
Tokens == WeekdayTokens \cup {MONTHLY, WEEKLY}

\* dict(zip(WEEKDAYS, itertools.count()))
WEEKDAY_NUMBERS(part) == (CHOOSE i \in 1..7 : WEEKDAYS[i] = part) - 1

(* dt + relativedelta(months=months, day=day, weekday=WD(1), days=days,    *)
(*                    hour=0, minute=0, second=0, microsecond=0)           *)
(* as dateutil computes it: the month is advanced (with the year carried), *)
(* the absolute fields replace those of dt (the day clipped to the month's *)
(* length), the relative days are added, and at last the date moves        *)
(* forward to the first day at or after it that is the weekday asked for.  *)
(* day = 0 and weekday = -1 stand for "not given".                         *)
RelativeDeltaAdd(dt, months, day, weekday, days) ==
    LET c     == CivilFromDays(dt.day)
        m0    == c.month + months
        year  == IF m0 > 12 THEN c.year + 1 ELSE c.year
        month == IF m0 > 12 THEN m0 - 12 ELSE m0
        want  == IF day # 0 THEN day ELSE c.day
        dim   == DaysInMonth(year, month)
        dd    == IF want < dim THEN want ELSE dim
        ret   == DaysFromCivil(year, month, dd) + days
        jump  == IF weekday = -1 THEN 0
                 ELSE (7 - Weekday(ret) + weekday) % 7
    IN  Datetime(ret + jump, 0, 0)

\* the weekday branch without the one-day advance
next_due_run_part_same_day(part, snc) ==
    IF part = MONTHLY THEN RelativeDeltaAdd(snc, 1, 1, -1, 0)
    ELSE LET p == IF part = WEEKLY THEN "MONDAY" ELSE part
         IN  IF p \in WeekdayTokens
             THEN RelativeDeltaAdd(snc, 0, 0, WEEKDAY_NUMBERS(p), 0)
             ELSE None

\* the monthly branch without months=1: the first of the current month
next_due_run_part_this_month(part, snc) ==
    IF part = MONTHLY THEN RelativeDeltaAdd(snc, 0, 1, -1, 0)
    ELSE LET p == IF part = WEEKLY THEN "MONDAY" ELSE part
         IN  IF p \in WeekdayTokens
             THEN RelativeDeltaAdd(snc, 0, 0, WEEKDAY_NUMBERS(p), 1)
             ELSE None

\* Weekly not rewritten to Monday before the weekday lookup
next_due_run_part_weekly_sunday(part, snc) ==
    IF part = MONTHLY THEN RelativeDeltaAdd(snc, 1, 1, -1, 0)
    ELSE LET p == IF part = WEEKLY THEN "SUNDAY" ELSE part
         IN  IF p \in WeekdayTokens
             THEN RelativeDeltaAdd(snc, 0, 0, WEEKDAY_NUMBERS(p), 1)
             ELSE None

\* next_due_run.next_due_run_part: the candidate of one token
next_due_run_part(part, snc) ==
    IF part = MONTHLY THEN RelativeDeltaAdd(snc, 1, 1, -1, 0)
    ELSE LET p == IF part = WEEKLY THEN "MONDAY" ELSE part
         IN  IF p \in WeekdayTokens
             THEN RelativeDeltaAdd(snc, 0, 0, WEEKDAY_NUMBERS(p), 1)
             ELSE None

\* min() over datetimes
MinDt(S) == CHOOSE x \in S : \A y \in S : DtLeq(x, y)

next_due_run(ts, snc) == MinDt({next_due_run_part(part, snc) : part \in ts})

-----------------------------------------------------------------------------
(* Bounds of the scheduler probe.                                          *)

MaxTokens == 3          \* tokens in a probed timespec
MaxDayOffset == 45      \* days after BaseDay a probed `since` may fall on

\* the first `since` of the repository's tests: Monday 2014-11-17
BaseDay == DaysFromCivil(2014, 11, 17)

SecsOfDay == {0, 12 * 60 * 60, SecondsPerDay - 1}
Micros == {0, 999999}

Timespecs == {ts \in SUBSET Tokens : Cardinality(ts) \in 1..MaxTokens}

Sinces == {Datetime(BaseDay + o, s, u) :
              o \in 0..MaxDayOffset, s \in SecsOfDay, u \in Micros}

SchedInit ==
    /\ timespec \in Timespecs
    /\ since \in Sinces
    /\ tgt = None
    /\ spc = "ready"
    /\ utcoffset = 0
    /\ configured_backups = <<>>
    /\ FlowIdle
    /\ RestoreIdle
    /\ RestIdle

\* next = backup.next_due_run(spec, time)
CallNextDueRun ==
    /\ spc = "ready"
    /\ tgt' = next_due_run(timespec, since)
    /\ spc' = "returned"
    /\ UNCHANGED <<timespec, since, flowVars, restoreVars, restVars>>

SchedNext == CallNextDueRun

SpecSched == SchedInit /\ [][SchedNext]_vars

-----------------------------------------------------------------------------
(* The scheduler's claims, checked under SpecSched.                        *)

WeekdayOnly(ts) == ts \subseteq (WeekdayTokens \cup {WEEKLY})

\* the weekday a token selects (Weekly selects Monday)
SelectedWeekday(part) ==
    IF part = WEEKLY THEN 0 ELSE WEEKDAY_NUMBERS(part)

IsMidnight(dt) == dt.sec = 0 /\ dt.us = 0

IsFirstOfMonthMidnight(dt) == IsMidnight(dt) /\ CivilFromDays(dt.day).day = 1

\* C1: for a timespec made only of weekday tokens (Monday..Sunday, Weekly),
\* next_due_run(timespec, since) is strictly later than since, also when
\* since is exactly midnight on a selected weekday.
C1_StrictAdvance ==
    (spc = "returned" /\ WeekdayOnly(timespec)) => DtLess(since, tgt)

\* since is exactly midnight on a weekday the timespec selects, and
\* next_due_run has returned
C1_Witness ==
    /\ spc = "returned"
    /\ WeekdayOnly(timespec)
    /\ IsMidnight(since)
    /\ \E part \in timespec : SelectedWeekday(part) = Weekday(since.day)

\* C2: next_due_run({Monthly}, since) is midnight on day 1 of a month, is
\* strictly after since, and no other day-1 midnight lies strictly between
\* since and the result.
C2_MonthlyIsNextFirst ==
    (spc = "returned" /\ timespec = {MONTHLY}) =>
        /\ IsFirstOfMonthMidnight(tgt)
        /\ DtLess(since, tgt)
        /\ \A d \in since.day..tgt.day :
              LET m == Datetime(d, 0, 0)
              IN  ~(IsFirstOfMonthMidnight(m) /\ DtLess(since, m) /\ DtLess(m, tgt))

\* since is itself a day-1 midnight, and the result crosses into the next
\* month (or since is in December and the result is in the next year)
C2_Witness ==
    /\ spc = "returned"
    /\ timespec = {MONTHLY}
    /\ \/ IsFirstOfMonthMidnight(since)
       \/ CivilFromDays(since.day).month = 12 /\ CivilFromDays(tgt.day).month = 1

\* the earliest midnight strictly after snc whose day satisfies the token:
\* day 1 of a month for Monthly, the token's weekday otherwise
TokenDay(part, d) ==
    IF part = MONTHLY THEN CivilFromDays(d).day = 1
    ELSE Weekday(d) = SelectedWeekday(part)

EarliestCandidate(part, snc) ==
    LET ok(d) == TokenDay(part, d) /\ DtLess(snc, Datetime(d, 0, 0))
        day   == CHOOSE d \in snc.day..(snc.day + 32) :
                    ok(d) /\ \A e \in snc.day..(d - 1) : ~ok(e)
    IN  Datetime(day, 0, 0)

\* C3: next_due_run(timespec, since) is the earliest of the per-token
\* candidates (next first-of-month midnight for Monthly, next midnight of the
\* weekday for a weekday token, Monday's for Weekly).
C3_EarliestCandidate ==
    spc = "returned" =>
        /\ \E part \in timespec : tgt = EarliestCandidate(part, since)
        /\ \A part \in timespec : DtLeq(tgt, EarliestCandidate(part, since))
        /\ WEEKLY \in timespec => DtLeq(tgt, EarliestCandidate("MONDAY", since))

\* a timespec mixing Monthly, Weekly and a weekday, where the first of the
\* month comes before the next Monday and the next Friday
C3_Witness ==
    /\ spc = "returned"
    /\ timespec = {MONTHLY, WEEKLY, "FRIDAY"}
    /\ IsFirstOfMonthMidnight(tgt)
    /\ Weekday(tgt.day) \notin {0, 4}

-----------------------------------------------------------------------------
(* backup.py: Backup and BackupSet.                                        *)

\* time.mktime(dt.timetuple()): the POSIX timestamp of a local datetime; the
\* time tuple has no microseconds
mktime(dt, off) == dt.day * SecondsPerDay + dt.sec - off

\* datetime.datetime.fromtimestamp(stamp).replace(tzinfo=LOCAL_TZ)
fromtimestamp(stamp, off) ==
    Datetime((stamp + off) \div SecondsPerDay, (stamp + off) % SecondsPerDay, 0)

\* Backup.should_run
should_run(ts, last_run, nw) == DtLess(next_due_run(ts, last_run), nw)

\* a backup never run is taken to have run just now
last_run_of_backup_default_now(st, name, off) ==
    fromtimestamp(IF name \in DOMAIN st THEN st[name] ELSE 2000000000, off)

\* BackupSet.last_run_of_backup: self.state.get(backup.name, 0)
last_run_of_backup(st, name, off) ==
    fromtimestamp(IF name \in DOMAIN st THEN st[name] ELSE 0, off)

\* the loop of backups_due, from position i on
RECURSIVE backups_due_loop(_, _, _, _, _)
backups_due_loop(cfg, st, nw, off, i) ==
    IF i > Len(cfg) THEN <<>>
    ELSE (IF should_run(cfg[i].timespec,
                        last_run_of_backup(st, cfg[i].name, off), nw)
          THEN <<cfg[i]>> ELSE <<>>)
         \o backups_due_loop(cfg, st, nw, off, i + 1)

\* backups_due without the test of the modification times
backups_due_ignoring_mtime(cfg, st, cmtime, smtime, nw, off) ==
    backups_due_loop(cfg, st, nw, off, 1)

\* BackupSet.backups_due
backups_due(cfg, st, cmtime, smtime, nw, off) ==
    IF cmtime > smtime THEN cfg
    ELSE backups_due_loop(cfg, st, nw, off, 1)

Names(bks) == {bks[i].name : i \in 1..Len(bks)}

\* state_after_backups that clears the entries of the other backups
state_after_backups_only_new(st, bks, nw, off) ==
    [ret  |-> [n \in Names(bks) |-> mktime(nw, off)],
     self |-> st]

\* state_after_backups that writes into self.state (no copy)
state_after_backups_in_place(st, bks, nw, off) ==
    LET new == [n \in (DOMAIN st) \cup Names(bks) |->
                   IF n \in Names(bks) THEN mktime(nw, off) ELSE st[n]]
    IN  [ret |-> new, self |-> new]

\* BackupSet.state_after_backups: ret is the mapping returned, self is
\* self.state after the call
state_after_backups(st, bks, nw, off) ==
    [ret  |-> [n \in (DOMAIN st) \cup Names(bks) |->
                  IF n \in Names(bks) THEN mktime(nw, off) ELSE st[n]],
     self |-> st]

-----------------------------------------------------------------------------
(* The `backup` verb: application.py perform_backups, configuration.py     *)
(* Config.                                                                 *)

NumBackups == 2         \* backups in a configuration

BackendNames == {"k1", "k2"}

\* a configured backup, its name left out
BackupShapes ==
    { [timespec |-> {"MONDAY"}, backends |-> <<"k1">>],
      [timespec |-> {MONTHLY}, backends |-> <<"k2", "k1">>],
      [timespec |-> {WEEKLY, "FRIDAY"}, backends |-> <<>>] }

\* backup names are numbers, declared in descending order: the position of
\* a backup in the configuration is not its name
NameOrders(n) == { [i \in 1..n |-> n + 1 - i] }

\* a name the state file may hold that no configured backup has
StaleName == NumBackups + 1

Configurations ==
    { [i \in 1..NumBackups |-> [name |-> names[i],
                                timespec |-> shapes[i].timespec,
                                backends |-> shapes[i].backends]] :
         names \in NameOrders(NumBackups),
         shapes \in [1..NumBackups -> BackupShapes] }

UtcOffsets == {0 - 8 * 60 * 60, 60 * 60}

\* when the invocation runs: a Monday at midnight exactly, within its first
\* second, and at noon of the first of December
Nows == { Datetime(BaseDay + 7, 0, 0), Datetime(BaseDay + 7, 0, 999999),
          Datetime(BaseDay + 14, 12 * 60 * 60, 0) }

\* when earlier invocations ran
PastRuns == { Datetime(BaseDay, 12 * 60 * 60, 0), Datetime(BaseDay + 7, 0, 0) }

ConfigWritten == Datetime(BaseDay - 1, 0, 0)

\* a state file: each configured backup has no entry or the time of a past
\* run, and the file may hold an entry of a backup no longer configured
RunStates(cfg, off) ==
    LET configured == UNION { [D -> {mktime(r, off) : r \in PastRuns}] :
                              D \in SUBSET Names(cfg) }
        stale == [n \in {StaleName} |-> mktime(Datetime(BaseDay, 0, 0), off)]
    IN  configured \cup { st @@ stale : st \in configured }

Init ==
    /\ SchedIdle
    /\ RestoreIdle
    /\ RestIdle
    /\ utcoffset \in UtcOffsets
    /\ configured_backups \in Configurations
    /\ now \in Nows
    /\ statefile \in RunStates(configured_backups, utcoffset)
    /\ statefile_before = statefile
    /\ config_mtime = mktime(ConfigWritten, utcoffset)
    /\ \/ state_mtime \in {config_mtime - 1, config_mtime}
       \/ statefile = <<>> /\ state_mtime = 0     \* no state file: ENOENT
    /\ state = None
    /\ pc = "start"
    /\ backups = <<>>
    /\ bi = 0
    /\ bj = 0
    /\ success = TRUE
    /\ backup_successes = <<>>
    /\ calls = <<>>
    /\ returned = <<>>
    /\ new_state = None

\* Config.__init__: load_state and the ConfiguredBackupSet
load_config ==
    /\ pc = "start"
    /\ state' = statefile
    /\ pc' = "loaded"
    /\ UNCHANGED <<schedVars, restVars, restoreVars, diskVars, utcoffset, statefile_before,
                   configured_backups, now, backups, bi, bj, success,
                   backup_successes, calls, returned, new_state>>

\* perform_backups: backups = self.get_due_backups()
get_due_backups ==
    /\ pc = "loaded"
    /\ backups' = backups_due(configured_backups, state, config_mtime,
                              state_mtime, now, utcoffset)
    /\ bi' = 1
    /\ bj' = 1
    /\ success' = TRUE
    /\ pc' = "loop"
    /\ UNCHANGED <<schedVars, restVars, restoreVars, diskVars, utcoffset, statefile_before,
                   configured_backups, now, state, backup_successes, calls,
                   returned, new_state>>

\* perform_backups leaving its loop at the first backup that failed
perform_backups_stops_on_failure(bks, i, rets) ==
    i > Len(bks) \/ \E k \in 1..Len(rets) : ~rets[k].ok

\* perform_backups: `for backup in backups` is exhausted
perform_backups_loop_done(bks, i, rets) == i > Len(bks)

\* Backup.perform evaluating backend.perform whatever success holds
perform_exhausted(succ, j, n) == j > n

\* Backup.perform returning from inside its loop, after the first backend
perform_returns_after_first(succ, j, n) == ~succ \/ j > 1 \/ j > n

\* Backup.perform has no backend.perform left to evaluate: the loop is
\* exhausted, or success is False and `success and ...` evaluates no call
perform_finished(succ, j, n) == ~succ \/ j > n

\* Backup.perform: success = success and backend.perform(...), the right
\* operand evaluated: the external tool exits with status 0 (ok) or not
backend_perform ==
    /\ pc = "loop"
    /\ ~perform_backups_loop_done(backups, bi, returned)
    /\ ~perform_finished(success, bj, Len(backups[bi].backends))
    /\ \E ok \in BOOLEAN :
          /\ success' = ok
          /\ calls' = Append(calls, [backup |-> backups[bi].name,
                                     backend |-> backups[bi].backends[bj],
                                     ok |-> ok])
    /\ bj' = bj + 1
    /\ UNCHANGED <<schedVars, restVars, restoreVars, diskVars, utcoffset, statefile_before,
                   configured_backups, now, state, pc, backups, bi,
                   backup_successes, returned, new_state>>

\* Backup.perform returns (once success is False the remaining iterations
\* evaluate no backend.perform), and perform_backups appends the backup to
\* backup_successes when it returned True
\* perform_backups appending the backup whatever perform returned
NextBackupUnconditional(ok) ==
    /\ returned' = Append(returned, [backup |-> backups[bi].name, ok |-> ok])
    /\ backup_successes' = Append(backup_successes, backups[bi])
    /\ bi' = bi + 1
    /\ bj' = 1
    /\ success' = TRUE
    /\ UNCHANGED <<schedVars, restVars, restoreVars, diskVars, utcoffset, statefile_before,
                   configured_backups, now, state, pc, backups, calls,
                   new_state>>

\* perform_backups: if backup.perform(...): backup_successes.append(backup)
NextBackup(ok) ==
    /\ returned' = Append(returned, [backup |-> backups[bi].name, ok |-> ok])
    /\ backup_successes' = IF ok THEN Append(backup_successes, backups[bi])
                           ELSE backup_successes
    /\ bi' = bi + 1
    /\ bj' = 1
    /\ success' = TRUE
    /\ UNCHANGED <<schedVars, restVars, restoreVars, diskVars, utcoffset, statefile_before,
                   configured_backups, now, state, pc, backups, calls,
                   new_state>>

backup_perform_returns ==
    /\ pc = "loop"
    /\ ~perform_backups_loop_done(backups, bi, returned)
    /\ perform_finished(success, bj, Len(backups[bi].backends))
    /\ NextBackup(success)

\* note_successful_backups: save_state_given_new_backups
note_successful_backups ==
    /\ pc = "loop"
    /\ perform_backups_loop_done(backups, bi, returned)
    /\ LET r == state_after_backups(state, backup_successes, now, utcoffset)
       IN  /\ new_state' = r.ret
           /\ state' = r.self
           /\ statefile' = r.ret
    /\ state_mtime' = mktime(now, utcoffset)
    /\ pc' = "done"
    /\ UNCHANGED <<schedVars, restVars, restoreVars, utcoffset, statefile_before,
                   config_mtime,
                   configured_backups, now, backups, bi, bj, success,
                   backup_successes, calls, returned>>

\* the process stops after recording the backups that have succeeded so far
crash_after_recording ==
    /\ pc \in {"start", "loaded", "loop"}
    /\ pc' = "crashed"
    /\ statefile' = IF pc = "loop"
                    THEN state_after_backups(state, backup_successes, now,
                                             utcoffset).ret
                    ELSE statefile
    /\ UNCHANGED <<schedVars, restVars, restoreVars, state_mtime, config_mtime,
                   utcoffset, statefile_before,
                   configured_backups, now, state, backups, bi, bj, success,
                   backup_successes, calls, returned, new_state>>

\* the process stops before the state is written: an exception of a backend
\* call, or a kill
crash ==
    /\ pc \in {"start", "loaded", "loop"}
    /\ pc' = "crashed"
    /\ UNCHANGED <<schedVars, restVars, restoreVars, diskVars, utcoffset, statefile_before,
                   configured_backups, now, state, backups, bi, bj, success,
                   backup_successes, calls, returned, new_state>>

Next ==
    \/ load_config
    \/ get_due_backups
    \/ backend_perform
    \/ backup_perform_returns
    \/ note_successful_backups
    \/ crash

Spec == Init /\ [][Next]_vars

-----------------------------------------------------------------------------
(* The orchestrator's claims, checked under Spec.                          *)

\* the backends of a configured backup
BackendsOf(name) ==
    configured_backups[CHOOSE i \in 1..Len(configured_backups) :
                           configured_backups[i].name = name].backends

\* the entry of a name in a RunState: <<timestamp>>, or <<>> when there is
\* none
Entry(st, n) == IF n \in DOMAIN st THEN <<st[n]>> ELSE <<>>

\* the results of the backend.perform calls made for a backup
CallsOf(name) == {k \in 1..Len(calls) : calls[k].backup = name}

\* C4: immediately after a successful run is recorded at now, the backup is
\* not due at that same now: should_run(last_run_of(backup), now) is false
\* with the recorded state, for the backup's own timespec and for the
\* timespec of every single token (a timespec is due exactly when one of its
\* tokens is).
C4_NotDueAfterRecording ==
    pc = "done" =>
        \A i \in 1..Len(backup_successes) :
            LET b    == backup_successes[i]
                last == last_run_of_backup(statefile, b.name, utcoffset)
            IN  /\ ~should_run(b.timespec, last, now)
                /\ \A part \in Tokens : ~should_run({part}, last, now)

\* a backup scheduled on Mondays succeeded in an invocation that ran within
\* the first second of a Monday, and the state was saved
C4_Witness ==
    /\ pc = "done"
    /\ Weekday(now.day) = 0 /\ now.sec = 0 /\ now.us # 0
    /\ \E i \in 1..Len(backup_successes) :
          "MONDAY" \in backup_successes[i].timespec

\* the positions of the configured backups that are due by their schedule
ScheduledPositions ==
    {i \in 1..Len(configured_backups) :
        LET b     == configured_backups[i]
            stamp == IF b.name \in DOMAIN state THEN state[b.name] ELSE 0
        IN  should_run(b.timespec, fromtimestamp(stamp, utcoffset), now)}

\* the k-th smallest element of a set of positions
KthOf(P, k) == CHOOSE i \in P : Cardinality({j \in P : j < i}) = k - 1

\* C5: backups_due returns every configured backup, in configuration order,
\* when the configuration's modification time is newer than the state
\* file's; otherwise exactly the configured backups b with
\* should_run(last_run_of(b), now), in configuration order, last_run_of(b)
\* being b's RunState entry or epoch 0 when there is none.
C5_BackupsDue ==
    pc = "loop" =>
        LET P == IF config_mtime > state_mtime
                 THEN 1..Len(configured_backups)
                 ELSE ScheduledPositions
        IN  /\ Len(backups) = Cardinality(P)
            /\ \A k \in 1..Len(backups) :
                  backups[k] = configured_backups[KthOf(P, k)]

\* the configuration is not newer than the state file, one backup is due,
\* another is not, and a due one has no entry in the RunState
C5_Witness ==
    /\ pc = "loop"
    /\ ~(config_mtime > state_mtime)
    /\ 0 < Len(backups) /\ Len(backups) < Len(configured_backups)
    /\ \E k \in 1..Len(backups) : backups[k].name \notin DOMAIN state

\* C6: state_after_backups(successful) returns a RunState in which every
\* name of successful maps to (the whole-second timestamp of) now and every
\* other name has exactly the entry, or absence of entry, it had before; the
\* BackupSet's own state mapping is left unchanged by the call.
C6_StateAfterBackups ==
    [][(pc = "loop" /\ pc' = "done") =>
          /\ \A n \in Names(backup_successes) :
                Entry(new_state', n) = <<mktime(now, utcoffset)>>
          /\ \A n \in ((DOMAIN state) \cup (DOMAIN new_state'))
                         \ Names(backup_successes) :
                Entry(new_state', n) = Entry(state, n)
          /\ state' = state]_vars

\* the call was made with a successful backup that had no entry, while the
\* state holds the entry of another name
C6_Witness ==
    /\ pc = "done"
    /\ \E n \in Names(backup_successes) : n \notin DOMAIN state
    /\ \E n \in DOMAIN state : n \notin Names(backup_successes)

\* C7: across a whole `backup` invocation the persisted RunState entry of a
\* backup changes only if that backup's perform returned success in that
\* invocation: backups that were not due, or whose perform failed, keep
\* their previous last-run timestamp.
C7_EntryChangesOnlyOnSuccess ==
    \A n \in (DOMAIN statefile) \cup (DOMAIN statefile_before) :
        Entry(statefile, n) # Entry(statefile_before, n) =>
            \E k \in 1..Len(returned) : returned[k].backup = n /\ returned[k].ok

\* the state was saved after an invocation in which a backup with an entry
\* failed, and in which a configured backup with an entry was not due
C7_Witness ==
    /\ pc = "done"
    /\ \E k \in 1..Len(returned) :
          ~returned[k].ok /\ returned[k].backup \in DOMAIN statefile_before
    /\ \E n \in Names(configured_backups) \ Names(backups) :
          n \in DOMAIN statefile_before

\* C8: Backup.perform returns success if and only if every backend attached
\* to the backup reported success for this run; a backup with a failing
\* backend is never reported, or recorded in the RunState, as successful.
C8_SuccessIffAllBackends ==
    /\ \A k \in 1..Len(returned) :
          returned[k].ok <=>
              \A j \in 1..Len(BackendsOf(returned[k].backup)) :
                  \E c \in CallsOf(returned[k].backup) :
                      /\ calls[c].backend = BackendsOf(returned[k].backup)[j]
                      /\ calls[c].ok
    /\ \A c \in 1..Len(calls) :
          ~calls[c].ok =>
              /\ \A k \in 1..Len(returned) :
                    returned[k].backup = calls[c].backup => ~returned[k].ok
              /\ calls[c].backup \notin Names(backup_successes)
              /\ Entry(statefile, calls[c].backup)
                     = Entry(statefile_before, calls[c].backup)

\* a backup with two backends returned after its second backend failed, and
\* another returned success with every backend of its own having succeeded
C8_Witness ==
    /\ \E k \in 1..Len(returned) :
          /\ ~returned[k].ok
          /\ \E c, d \in CallsOf(returned[k].backup) :
                calls[c].ok /\ ~calls[d].ok
    /\ \E k \in 1..Len(returned) :
          returned[k].ok /\ CallsOf(returned[k].backup) # {}

\* C9: in a `backup` invocation every due backup is attempted exactly once,
\* in configuration-declared order, a backend failure in one backup never
\* prevents the following due backups from being attempted, and the
\* run-state is still saved afterwards.
C9_AllDueAttemptedInOrder ==
    /\ Len(returned) <= Len(backups)
    /\ \A k \in 1..Len(returned) : returned[k].backup = backups[k].name
    /\ \A k, l \in 1..Len(returned) :
          returned[k].backup = returned[l].backup => k = l
    /\ (pc = "loop" /\ Len(returned) < Len(backups)) =>
          ENABLED (backend_perform \/ backup_perform_returns)
    /\ (pc = "loop" /\ Len(returned) = Len(backups)) =>
          ENABLED note_successful_backups
    /\ pc = "done" =>
          /\ Len(returned) = Len(backups)
          /\ statefile = new_state
          /\ state_mtime = mktime(now, utcoffset)

\* the first due backup failed on a backend, a later one was attempted on
\* its backends, and the state was saved
C9_Witness ==
    /\ pc = "done"
    /\ Len(returned) >= 2
    /\ ~returned[1].ok
    /\ \E c \in CallsOf(returned[1].backup) : ~calls[c].ok
    /\ CallsOf(returned[2].backup) # {}

-----------------------------------------------------------------------------
(* The `restore` verb: application.py restore_backup, with the matchers of *)
(* archive_specifiers.py.  An archive is [timestamp, fullname]; a listing  *)
(* is the list existing_archives_for_name returns.                         *)

\* Archive.datetime: the local datetime of the archive's timestamp
ArchiveDatetime(archive, off) == fromtimestamp(archive.timestamp, off)

\* the calendar fields of a local datetime, seen in the timezone `to`:
\* archive.datetime.astimezone(self.datetime.tzinfo)
FieldsIn(dt, off, to) ==
    LET t == dt.day * SecondsPerDay + dt.sec - off + to
        c == CivilFromDays(t \div SecondsPerDay)
        s == t % SecondsPerDay
    IN  [year |-> c.year, month |-> c.month, day |-> c.day,
         hour |-> s \div 3600, minute |-> (s % 3600) \div 60,
         second |-> s % 60]

FuzzyFields == <<"year", "month", "day", "hour", "minute", "second">>

\* FuzzyDatetimeArchiveSpecifier.evaluate: how many of the six fields are
\* compared: the trailing fields that are 0 are dropped, down to day at most
RECURSIVE FuzzyChecked(_, _)
FuzzyChecked(dt, n) ==
    IF n > 3 /\ dt[FuzzyFields[n]] = 0 THEN FuzzyChecked(dt, n - 1) ELSE n

\* spec.evaluate(archive, ordinal) of the three concrete specifiers
evaluate(sp, archive, ordinal, off) ==
    CASE sp.kind = "ordinal"   -> ordinal = sp.ordinal
      [] sp.kind = "timestamp" ->
            sp.fraction = <<>> /\ archive.timestamp = sp.timestamp
      [] sp.kind = "fuzzy"     ->
            LET a == FieldsIn(ArchiveDatetime(archive, off), off, sp.tz)
            IN  \A k \in 1..FuzzyChecked(sp.datetime, 6) :
                    sp.datetime[FuzzyFields[k]] = a[FuzzyFields[k]]

\* sorted(archives, key=lambda x: x.datetime): a stable insertion sort
RECURSIVE InsertByDatetime(_, _, _)
InsertByDatetime(sorted, archive, off) ==
    IF sorted = <<>> THEN <<archive>>
    ELSE IF DtLess(ArchiveDatetime(archive, off),
                   ArchiveDatetime(sorted[Len(sorted)], off))
         THEN Append(InsertByDatetime(SubSeq(sorted, 1, Len(sorted) - 1),
                                      archive, off),
                     sorted[Len(sorted)])
         ELSE Append(sorted, archive)

RECURSIVE SortedByDatetime(_, _)
SortedByDatetime(archives, off) ==
    IF archives = <<>> THEN <<>>
    ELSE InsertByDatetime(
             SortedByDatetime(SubSeq(archives, 1, Len(archives) - 1), off),
             archives[Len(archives)], off)

\* restore_backup: the loop collecting matches over the enumerated sorted
\* archives, from position i (1-based here, the ordinal is i - 1)
RECURSIVE CollectMatches(_, _, _, _)
CollectMatches(sp, sorted, i, off) ==
    IF i > Len(sorted) THEN <<>>
    ELSE (IF evaluate(sp, sorted[i], i - 1, off) THEN <<sorted[i]>> ELSE <<>>)
         \o CollectMatches(sp, sorted, i + 1, off)

\* error.Error and the other exceptions, as [type, message, spec, listed]
Exception(type, message, sp, listed) ==
    [type |-> type, message |-> message, spec |-> sp, listed |-> listed]

\* no exception
NoException == Exception("None", "", None, <<>>)

\* restore_backup taking the first match without the test for several
restore_outcome_first_match(ms, spec_str) ==
    IF Len(ms) = 0
    THEN [raised   |-> Exception("Error", "matched no archives", spec_str, <<>>),
          restored |-> <<>>]
    ELSE [raised |-> NoException, restored |-> <<ms[1]>>]

\* restore_backup, lines 157-166: what it raises and what it restores
restore_outcome(ms, spec_str) ==
    IF Len(ms) > 1
    THEN [raised   |-> Exception("Error", "matched more than one archive",
                                 spec_str, ms),
          restored |-> <<>>]
    ELSE IF Len(ms) = 0
    THEN [raised   |-> Exception("Error", "matched no archives", spec_str, <<>>),
          restored |-> <<>>]
    ELSE [raised |-> NoException, restored |-> <<ms[1]>>]

MaxArchives == 3        \* archives in a listing

\* the timestamps archives may have: two on Monday 2014-11-17, one at the
\* next midnight, one a month later
ArchiveTimes == { Datetime(BaseDay, 12 * 60 * 60, 0),
                  Datetime(BaseDay, 13 * 60 * 60 + 30, 0),
                  Datetime(BaseDay + 1, 0, 0),
                  Datetime(BaseDay + 30, 12 * 60 * 60, 0) }

\* listings: the fullname of an archive is its position in the listing
Listings(off) ==
    UNION { { [i \in 1..n |-> [timestamp |-> mktime(ts[i], off), fullname |-> i]] :
                 ts \in [1..n -> ArchiveTimes] } : n \in 0..MaxArchives }

FuzzyDate(y, m, d, h, mi, sec) ==
    [year |-> y, month |-> m, day |-> d, hour |-> h, minute |-> mi,
     second |-> sec]

NoDatetime == FuzzyDate(0, 0, 0, 0, 0, 0)

Specifier(kind, ordinal, timestamp, datetime, tz) ==
    [kind |-> kind, ordinal |-> ordinal, timestamp |-> timestamp,
     fraction |-> <<>>, datetime |-> datetime, tz |-> tz]

\* no specifier (None)
NoSpecifier == Specifier("none", 0, 0, NoDatetime, 0)

\* the specifier strings given, each with the specifier ArchiveSpecifier
\* builds from it; built is NoSpecifier for a string no matcher accepts
ArchiveSpecs(off) ==
    { [str |-> "0", built |-> Specifier("ordinal", 0, 0, NoDatetime, 0)],
      [str |-> "1", built |-> Specifier("ordinal", 1, 0, NoDatetime, 0)],
      [str |-> "2", built |-> Specifier("ordinal", 2, 0, NoDatetime, 0)],
      [str |-> "3", built |-> Specifier("ordinal", 3, 0, NoDatetime, 0)],
      [str |-> "-1", built |-> Specifier("ordinal", 0 - 1, 0, NoDatetime, 0)],
      [str |-> "monday noon, as a timestamp",
       built |-> Specifier("timestamp", 0,
                           mktime(Datetime(BaseDay, 12 * 60 * 60, 0), off),
                           NoDatetime, 0)],
      [str |-> "tuesday midnight, as a timestamp",
       built |-> Specifier("timestamp", 0,
                           mktime(Datetime(BaseDay + 1, 0, 0), off),
                           NoDatetime, 0)],
      [str |-> "2014-11-17",
       built |-> Specifier("fuzzy", 0, 0, FuzzyDate(2014, 11, 17, 0, 0, 0), off)],
      [str |-> "2014-11-17 12:00",
       built |-> Specifier("fuzzy", 0, 0, FuzzyDate(2014, 11, 17, 12, 0, 0), off)],
      [str |-> "2014-11-18T00:00Z",
       built |-> Specifier("fuzzy", 0, 0, FuzzyDate(2014, 11, 18, 0, 0, 0), 0)],
      [str |-> "2014-12-25",
       built |-> Specifier("fuzzy", 0, 0, FuzzyDate(2014, 12, 25, 0, 0, 0), off)],
      [str |-> "no such archive", built |-> NoSpecifier] }

\* the configuration of the restore runs: backup 2 on k2 and k1, backup 1 on
\* k1 alone
RestoreConfiguration ==
    << [name |-> 2, timespec |-> {MONTHLY}, backends |-> <<"k2", "k1">>],
       [name |-> 1, timespec |-> {"MONDAY"}, backends |-> <<"k1">>] >>

RestoreInit ==
    /\ SchedIdle
    /\ FlowIdle
    /\ RestIdle
    /\ opt_backup \in Names(RestoreConfiguration) \cup {StaleName}
    /\ opt_backend \in BackendNames \cup {"k3"}
    /\ utcoffset \in UtcOffsets
    /\ configured_backups = RestoreConfiguration
    /\ archive_spec \in ArchiveSpecs(utcoffset)
    /\ listing \in Listings(utcoffset)
    /\ rpc = "start"
    /\ spec = NoSpecifier
    /\ matches = <<>>
    /\ restored = <<>>
    /\ raised = NoException

\* restore_backup raises: Application.run logs it and exits with status 1
Raise(exc) ==
    /\ raised' = exc
    /\ rpc' = "failed"

\* restore_backup, lines 141-148: get_backup_by_name, get_backend_by_name
\* and the test that the backend is one of the backup's
restore_lookup ==
    /\ rpc = "start"
    /\ IF opt_backup \notin Names(configured_backups)
       THEN Raise(Exception("Error", "Couldn't find backup", None, <<>>))
       ELSE IF opt_backend \notin BackendNames
       THEN Raise(Exception("Error", "Couldn't find backend", None, <<>>))
       ELSE IF \A j \in 1..Len(BackendsOf(opt_backup)) :
                  BackendsOf(opt_backup)[j] # opt_backend
       THEN Raise(Exception("Error", "backend not configured for backup",
                            None, <<>>))
       ELSE rpc' = "resolved" /\ UNCHANGED raised
    /\ UNCHANGED <<schedVars, restVars, flowVars, opt_backup, opt_backend, archive_spec,
                   listing, spec, matches, restored>>

\* spec = archive_specifiers.ArchiveSpecifier(spec_str)
restore_build_spec ==
    /\ rpc = "resolved"
    /\ IF archive_spec.built = NoSpecifier
       THEN /\ Raise(Exception("ValueError", "No specifier matched",
                               archive_spec.str, <<>>))
            /\ UNCHANGED spec
       ELSE /\ spec' = archive_spec.built
            /\ rpc' = "built"
            /\ UNCHANGED raised
    /\ UNCHANGED <<schedVars, restVars, flowVars, opt_backup, opt_backend, archive_spec,
                   listing, matches, restored>>

\* restore_backup, lines 151-155: the archives of the backend are listed,
\* sorted by time and enumerated, and the matching ones collected
restore_collect_matches ==
    /\ rpc = "built"
    /\ matches' = CollectMatches(spec, SortedByDatetime(listing, utcoffset), 1,
                                 utcoffset)
    /\ rpc' = "matched"
    /\ UNCHANGED <<schedVars, restVars, flowVars, opt_backup, opt_backend, archive_spec,
                   listing, spec, restored, raised>>

\* restore_backup, lines 157-166: the two errors, or archive.restore, whose
\* external tool exits with status 0 or not
restore_finish ==
    /\ rpc = "matched"
    /\ LET out == restore_outcome(matches, archive_spec.str)
       IN  /\ raised' = out.raised
           /\ restored' = out.restored
           /\ IF out.restored = <<>> THEN rpc' = "failed"
              ELSE \E ok \in BOOLEAN :
                      rpc' = IF ok THEN "done" ELSE "tool failed"
    /\ UNCHANGED <<schedVars, restVars, flowVars, opt_backup, opt_backend, archive_spec,
                   listing, spec, matches>>

RestoreNext ==
    \/ restore_lookup
    \/ restore_build_spec
    \/ restore_collect_matches
    \/ restore_finish

SpecRestore == RestoreInit /\ [][RestoreNext]_vars

-----------------------------------------------------------------------------
(* The restore claim, checked under SpecRestore.                           *)

\* the 0-based position of listing[i] in the ascending-by-time ordering of
\* the listing: the number of archives before it (sorted() is stable:
\* archives of one time keep the order of the listing)
PositionOf(i) ==
    Cardinality({j \in 1..Len(listing) :
                    \/ listing[j].timestamp < listing[i].timestamp
                    \/ listing[j].timestamp = listing[i].timestamp /\ j < i})

\* the archives of the listing that the specifier matches
Matching ==
    {i \in 1..Len(listing) :
        evaluate(spec, listing[i], PositionOf(i), utcoffset)}

\* restore_backup got as far as counting the matches and has ended
RestoreDecided ==
    spec # NoSpecifier /\ rpc \in {"failed", "done", "tool failed"}

\* C10: restore calls the backend's restore operation only when the
\* specifier matches exactly one archive of the (backup, backend) listing,
\* and then on that archive; with zero matches it raises a domain error
\* naming the spec, with two or more matches a domain error that lists every
\* matching archive, and in both error cases no restore operation is invoked.
C10_RestoreExactlyOne ==
    /\ restored # <<>> =>
          /\ Cardinality(Matching) = 1
          /\ restored = <<listing[CHOOSE i \in Matching : TRUE]>>
    /\ (RestoreDecided /\ Cardinality(Matching) = 1) =>
          /\ restored # <<>>
          /\ raised = NoException
    /\ (RestoreDecided /\ Matching = {}) =>
          /\ restored = <<>>
          /\ raised.type = "Error"
          /\ raised.message = "matched no archives"
          /\ raised.spec = archive_spec.str
    /\ (RestoreDecided /\ Cardinality(Matching) >= 2) =>
          /\ restored = <<>>
          /\ raised.type = "Error"
          /\ raised.message = "matched more than one archive"
          /\ raised.spec = archive_spec.str
          /\ Len(raised.listed) = Cardinality(Matching)
          /\ {raised.listed[k] : k \in 1..Len(raised.listed)}
                 = {listing[i] : i \in Matching}

\* a date matched two of three archives and the error listing both was
\* raised
C10_Witness ==
    /\ rpc = "failed"
    /\ spec.kind = "fuzzy"
    /\ Len(listing) = 3
    /\ Len(raised.listed) = 2

\* an ordinal selected the one archive that is second in time but not
\* second in the listing, and restore was invoked on it
C10_WitnessRestored ==
    /\ rpc = "done"
    /\ spec.kind = "ordinal" /\ spec.ordinal = 1
    /\ restored # <<>>
    /\ restored[1] # listing[2]

\* a timestamp matched no archive of a listing that is not empty
C10_WitnessNoMatch ==
    /\ rpc = "failed"
    /\ spec.kind = "timestamp"
    /\ listing # <<>>
    /\ raised.message = "matched no archives"

-----------------------------------------------------------------------------
(* pruning_engine.py and time_utilities.py: which archives of a listing    *)
(* the engine keeps.  A PruningConfig is [daily_count, weekly_count,       *)
(* monthly_count], each a number or Unbounded.                             *)

\* a count that no number of saved archives reaches
Unbounded == 0 - 1

PruningConfig(daily, weekly, monthly) ==
    [daily_count |-> daily, weekly_count |-> weekly, monthly_count |-> monthly]

\* the PruningConfig of a backup with no entry of its own
DefaultPruningConfig == PruningConfig(Unbounded, Unbounded, Unbounded)

\* len(saved) < count
BelowCount(saved, count) ==
    count = Unbounded \/ Cardinality(DOMAIN saved) < count

\* time_utilities.day, week and month: the local day, the Monday on or
\* before it, and the first day of its month
day(dt) == dt.day

week(dt) == dt.day - Weekday(dt.day)

month(dt) ==
    LET c == CivilFromDays(dt.day) IN DaysFromCivil(c.year, c.month, 1)

\* (time_utilities.local_timestamp() - archive.datetime).days: the whole
\* days of the difference, rounded down (the archive's datetime has no
\* microseconds here)
SinceDays(nw, dt) ==
    ((nw.day - dt.day) * SecondsPerDay + nw.sec - dt.sec) \div SecondsPerDay

\* sorted(archives, cmp=lambda x, y: cmp(y.datetime, x.datetime)): most
\* recent first, archives of one time in the order of the listing
RECURSIVE InsertMostRecentFirst(_, _, _)
InsertMostRecentFirst(sorted, archive, off) ==
    IF sorted = <<>> THEN <<archive>>
    ELSE IF DtLess(ArchiveDatetime(sorted[Len(sorted)], off),
                   ArchiveDatetime(archive, off))
         THEN Append(InsertMostRecentFirst(SubSeq(sorted, 1, Len(sorted) - 1),
                                           archive, off),
                     sorted[Len(sorted)])
         ELSE Append(sorted, archive)

\* the archives sorted the other way, the oldest first
SortedOldestFirst(as, off) == SortedByDatetime(as, off)

RECURSIVE SortedMostRecentFirst(_, _)
SortedMostRecentFirst(as, off) ==
    IF as = <<>> THEN <<>>
    ELSE InsertMostRecentFirst(
             SortedMostRecentFirst(SubSeq(as, 1, Len(as) - 1), off),
             as[Len(as)], off)

\* fresh, daily_saved, weekly_saved and monthly_saved before the loop
NothingSaved ==
    [fresh |-> <<>>, daily_saved |-> <<>>, weekly_saved |-> <<>>,
     monthly_saved |-> <<>>]

\* saved[key] = archive
Saved(saved, key, archive) ==
    [k \in (DOMAIN saved) \cup {key} |-> IF k = key THEN archive ELSE saved[k]]

\* the body of the loop without the test for the last 24 hours
prunable_archives_step_no_fresh(acc, archive, cfg, nw, off) ==
    LET dt == ArchiveDatetime(archive, off)
    IN  IF BelowCount(acc.daily_saved, cfg.daily_count)
              /\ day(dt) \notin DOMAIN acc.daily_saved
        THEN [acc EXCEPT !.daily_saved = Saved(@, day(dt), archive)]
        ELSE IF BelowCount(acc.weekly_saved, cfg.weekly_count)
              /\ week(dt) \notin DOMAIN acc.weekly_saved
        THEN [acc EXCEPT !.weekly_saved = Saved(@, week(dt), archive)]
        ELSE IF BelowCount(acc.monthly_saved, cfg.monthly_count)
              /\ month(dt) \notin DOMAIN acc.monthly_saved
        THEN [acc EXCEPT !.monthly_saved = Saved(@, month(dt), archive)]
        ELSE acc

\* the body of the loop with no test that the bucket is still free
prunable_archives_step_any_bucket(acc, archive, cfg, nw, off) ==
    LET dt == ArchiveDatetime(archive, off)
    IN  IF SinceDays(nw, dt) < 1
        THEN [acc EXCEPT !.fresh = Append(@, archive)]
        ELSE IF BelowCount(acc.daily_saved, cfg.daily_count)
        THEN [acc EXCEPT !.daily_saved = Saved(@, archive.fullname, archive)]
        ELSE IF BelowCount(acc.weekly_saved, cfg.weekly_count)
        THEN [acc EXCEPT !.weekly_saved = Saved(@, archive.fullname, archive)]
        ELSE IF BelowCount(acc.monthly_saved, cfg.monthly_count)
        THEN [acc EXCEPT !.monthly_saved = Saved(@, archive.fullname, archive)]
        ELSE acc

\* the body of the loop with the weekly gate before the daily one
prunable_archives_step_weekly_first(acc, archive, cfg, nw, off) ==
    LET dt == ArchiveDatetime(archive, off)
    IN  IF SinceDays(nw, dt) < 1
        THEN [acc EXCEPT !.fresh = Append(@, archive)]
        ELSE IF BelowCount(acc.weekly_saved, cfg.weekly_count)
              /\ week(dt) \notin DOMAIN acc.weekly_saved
        THEN [acc EXCEPT !.weekly_saved = Saved(@, week(dt), archive)]
        ELSE IF BelowCount(acc.daily_saved, cfg.daily_count)
              /\ day(dt) \notin DOMAIN acc.daily_saved
        THEN [acc EXCEPT !.daily_saved = Saved(@, day(dt), archive)]
        ELSE IF BelowCount(acc.monthly_saved, cfg.monthly_count)
              /\ month(dt) \notin DOMAIN acc.monthly_saved
        THEN [acc EXCEPT !.monthly_saved = Saved(@, month(dt), archive)]
        ELSE acc

\* prunable_archives, lines 25-43: the body of the loop, for one archive
prunable_archives_step(acc, archive, cfg, nw, off) ==
    LET dt == ArchiveDatetime(archive, off)
    IN  IF SinceDays(nw, dt) < 1
        THEN [acc EXCEPT !.fresh = Append(@, archive)]
        ELSE IF BelowCount(acc.daily_saved, cfg.daily_count)
              /\ day(dt) \notin DOMAIN acc.daily_saved
        THEN [acc EXCEPT !.daily_saved = Saved(@, day(dt), archive)]
        ELSE IF BelowCount(acc.weekly_saved, cfg.weekly_count)
              /\ week(dt) \notin DOMAIN acc.weekly_saved
        THEN [acc EXCEPT !.weekly_saved = Saved(@, week(dt), archive)]
        ELSE IF BelowCount(acc.monthly_saved, cfg.monthly_count)
              /\ month(dt) \notin DOMAIN acc.monthly_saved
        THEN [acc EXCEPT !.monthly_saved = Saved(@, month(dt), archive)]
        ELSE acc

\* the loop over sorted_archives, from position i on
RECURSIVE prunable_archives_loop(_, _, _, _, _, _)
prunable_archives_loop(acc, sorted, i, cfg, nw, off) ==
    IF i > Len(sorted) THEN acc
    ELSE prunable_archives_loop(
             prunable_archives_step(acc, sorted[i], cfg, nw, off),
             sorted, i + 1, cfg, nw, off)

\* dict.values()
Values(saved) == {saved[k] : k \in DOMAIN saved}

\* saved_archives, lines 46-50
saved_archives(acc) ==
    {acc.fresh[i] : i \in 1..Len(acc.fresh)}
        \cup Values(acc.daily_saved) \cup Values(acc.weekly_saved)
        \cup Values(acc.monthly_saved)

\* [archive for archive in sorted_archives if archive not in saved_archives]
RECURSIVE NotIn(_, _)
NotIn(sorted, saved) ==
    IF sorted = <<>> THEN <<>>
    ELSE (IF sorted[1] \in saved THEN <<>> ELSE <<sorted[1]>>)
         \o NotIn(Tail(sorted), saved)

\* PruningEngine.prunable_archives: what the loop saved, and the list it
\* returns
prunable_archives(as, cfg, nw, off) ==
    LET sorted == SortedMostRecentFirst(as, off)
        acc    == prunable_archives_loop(NothingSaved, sorted, 1, cfg, nw, off)
    IN  [fresh |-> acc.fresh, daily_saved |-> acc.daily_saved,
         weekly_saved |-> acc.weekly_saved,
         monthly_saved |-> acc.monthly_saved,
         prunable |-> NotIn(sorted, saved_archives(acc))]

-----------------------------------------------------------------------------
(* The pruning engine probe: one call of prunable_archives.                *)

MaxPruned == 5          \* archives in a probed listing

\* when the engine runs: Wednesday 2014-12-31 at noon, and within the first
\* second of 2015
LocalNows == { Datetime(BaseDay + 44, 12 * 60 * 60, 0),
               Datetime(BaseDay + 45, 0, 999999) }

\* how long before that the archives were made, in seconds: an hour, a
\* second less than a day, a day, four times within the 12 hours before
\* that, three days and 32 days
Ages == << 24 * 60 * 60 + 11 * 60 * 60, 60 * 60, 32 * SecondsPerDay,
           24 * 60 * 60, 24 * 60 * 60 + 11 * 60 * 60 + 30 * 60,
           3 * SecondsPerDay, 24 * 60 * 60 - 1, 24 * 60 * 60 + 6 * 60 * 60 >>

\* the same, in the opposite order
Reversed(s) == [i \in 1..Len(s) |-> s[Len(s) + 1 - i]]

\* the archives of the given ages (positions of `ages`), in the order of
\* `ages`; the fullname of an archive is its position in the listing
RECURSIVE AgesListed(_, _, _)
AgesListed(ages, chosen, i) ==
    IF i > Len(ages) THEN <<>>
    ELSE (IF i \in chosen THEN <<ages[i]>> ELSE <<>>)
         \o AgesListed(ages, chosen, i + 1)

EngineListing(ages, nw, off) ==
    [i \in 1..Len(ages) |->
        [timestamp |-> mktime(nw, off) - ages[i], fullname |-> i]]

\* listings of archives made at different times, as the store lists them,
\* which is in no order of time
EngineListings(nw, off) ==
    { EngineListing(AgesListed(order, chosen, 1), nw, off) :
         order \in {Ages, Reversed(Ages)},
         chosen \in {c \in SUBSET (1..Len(Ages)) : Cardinality(c) <= MaxPruned} }

PruningConfigs ==
    { PruningConfig(d, w, m) :
         d \in {0, 1, 2, Unbounded}, w \in {0, 1, Unbounded},
         m \in {0, 1, Unbounded} }

\* no result yet
NoEngineResult ==
    [fresh |-> <<>>, daily_saved |-> <<>>, weekly_saved |-> <<>>,
     monthly_saved |-> <<>>, prunable |-> <<>>]

EngineInit ==
    /\ LateIdle
    /\ RunIdle
    /\ StoreIdle
    /\ SchedIdle
    /\ FlowIdle
    /\ RestoreIdle
    /\ utcoffset \in UtcOffsets
    /\ configured_backups = <<>>
    /\ local_now \in LocalNows
    /\ pruning_config \in PruningConfigs
    /\ engine_archives \in EngineListings(local_now, utcoffset)
    /\ engine = NoEngineResult
    /\ epc = "ready"
    /\ PruneIdle
    /\ SpecifierIdle

\* archives_to_prune = engine.prunable_archives(archives)
CallPrunableArchives ==
    /\ epc = "ready"
    /\ engine' = prunable_archives(engine_archives, pruning_config, local_now,
                                   utcoffset)
    /\ epc' = "returned"
    /\ UNCHANGED <<schedVars, flowVars, restoreVars, lateVars, storeVars,
                   runVars, pruneVars, specifierVars,
                   engine_archives, pruning_config, local_now>>

EngineNext == CallPrunableArchives

SpecPrunable == EngineInit /\ [][EngineNext]_vars

-----------------------------------------------------------------------------
(* The pruning engine's claims, checked under SpecPrunable.                *)

ListedArchives == {engine_archives[i] : i \in 1..Len(engine_archives)}

\* now minus the archive's timestamp, in whole seconds (rounded down)
AgeOf(archive) == mktime(local_now, utcoffset) - archive.timestamp

IsFresh(archive) == AgeOf(archive) < 24 * 60 * 60

PrunableSet == {engine.prunable[i] : i \in 1..Len(engine.prunable)}

LocalDatetime(archive) == fromtimestamp(archive.timestamp, utcoffset)

SameDay(a, b) == LocalDatetime(a).day = LocalDatetime(b).day

SameWeek(a, b) ==
    LocalDatetime(a).day - Weekday(LocalDatetime(a).day)
        = LocalDatetime(b).day - Weekday(LocalDatetime(b).day)

SameMonth(a, b) ==
    LET ca == CivilFromDays(LocalDatetime(a).day)
        cb == CivilFromDays(LocalDatetime(b).day)
    IN  ca.year = cb.year /\ ca.month = cb.month

\* C11: with an all-unbounded PruningConfig (the default of a backup with no
\* pruning entry of its own) prunable_archives returns the empty list for
\* every listing, whatever the number of archives that share a day, a week
\* or a month.
C11_UnboundedNeverPrunes ==
    (epc = "returned" /\ pruning_config = DefaultPruningConfig) =>
        engine.prunable = <<>>

\* C12: an archive whose age is less than 24 hours is never in the prunable
\* list, whatever the quotas (all-zero quotas included), and it counts
\* toward no quota: the prunable list is the one the engine returns for the
\* listing without its fresh archives.
C12_FreshNeverPruned ==
    epc = "returned" =>
        /\ \A a \in ListedArchives : IsFresh(a) => a \notin PrunableSet
        /\ engine.prunable
             = prunable_archives(SelectSeq(engine_archives,
                                           LAMBDA a : ~IsFresh(a)),
                                 pruning_config, local_now, utcoffset).prunable

\* an archive one second short of 24 hours old was made on the same day as
\* an older one, the daily quota is 1 and the older one is kept while
\* another archive is pruned
C12_Witness ==
    /\ epc = "returned"
    /\ pruning_config = PruningConfig(1, 0, 0)
    /\ engine.prunable # <<>>
    /\ \E a, b \in ListedArchives :
          /\ AgeOf(a) = 24 * 60 * 60 - 1
          /\ ~IsFresh(b) /\ SameDay(a, b)
          /\ b \notin PrunableSet

Within(S, count) == count = Unbounded \/ Cardinality(S) <= count

\* C13: the archives prunable_archives retains that are not fresh are at
\* most daily_count daily representatives on pairwise distinct days, at most
\* weekly_count weekly representatives in pairwise distinct Monday-started
\* weeks and at most monthly_count monthly representatives in pairwise
\* distinct months, no archive representing two tiers; every other archive
\* that is not fresh is pruned.
C13_RetainedAreRepresentatives ==
    epc = "returned" =>
        LET D == Values(engine.daily_saved)
            W == Values(engine.weekly_saved)
            M == Values(engine.monthly_saved)
        IN  /\ {a \in ListedArchives : ~IsFresh(a)} \ PrunableSet
                   = D \cup W \cup M
            /\ D \cap W = {} /\ D \cap M = {} /\ W \cap M = {}
            /\ Within(D, pruning_config.daily_count)
            /\ Within(W, pruning_config.weekly_count)
            /\ Within(M, pruning_config.monthly_count)
            /\ \A a, b \in D : a # b => ~SameDay(a, b)
            /\ \A a, b \in W : a # b => ~SameWeek(a, b)
            /\ \A a, b \in M : a # b => ~SameMonth(a, b)
            /\ Len(engine.prunable) = Cardinality(PrunableSet)
            /\ PrunableSet \subseteq ListedArchives

\* the quotas are 1, 1 and 1, each tier has its representative, a fourth
\* archive that is not fresh is pruned and a fresh one is kept besides
C13_Witness ==
    /\ epc = "returned"
    /\ pruning_config = PruningConfig(1, 1, 1)
    /\ engine.daily_saved # <<>>
    /\ engine.weekly_saved # <<>>
    /\ engine.monthly_saved # <<>>
    /\ engine.prunable # <<>>
    /\ engine.fresh # <<>>

-----------------------------------------------------------------------------
(* The `prune` verb: application.py prune_archives, pruning_engine.py      *)
(* prune_archives and the destroy of an archive.                           *)

MaxStored == 2          \* archives a backend holds for a backup

\* the ages of the stored archives: an hour, a day, 30 hours and 32 days
StoredAges == << 24 * 60 * 60, 60 * 60, 32 * SecondsPerDay, 30 * 60 * 60 >>

StoredListings(nw, off) ==
    { EngineListing(AgesListed(StoredAges, chosen, 1), nw, off) :
         chosen \in {c \in SUBSET (1..Len(StoredAges)) :
                        Cardinality(c) <= MaxStored} }

\* a backend that holds nothing for the backup, or as much as it may
FullListings(nw, off) ==
    { l \in StoredListings(nw, off) : Len(l) \in {0, MaxStored} }

\* the (backup, backend) pairs of a configuration
Pairs(cfg) ==
    UNION { { <<cfg[i].name, cfg[i].backends[j]>> :
                 j \in 1..Len(cfg[i].backends) } : i \in 1..Len(cfg) }

\* the pruning configurations: the first backup has an entry, the others
\* have one or none
PruningConfigurations(cfg) ==
    { [n \in D |-> IF n = cfg[1].name THEN first ELSE PruningConfig(1, 0, 0)] :
         D \in {Names(cfg), {cfg[1].name}},
         first \in {PruningConfig(0, 0, 0), PruningConfig(1, 1, 0)} }

\* what the backends hold: any listing for the first backup, nothing or a
\* full listing for the others
StoredArchives(cfg, nw, off) ==
    { st \in [Pairs(cfg) -> StoredListings(nw, off)] :
         \A pair \in Pairs(cfg) :
             pair[1] # cfg[1].name => st[pair] \in FullListings(nw, off) }

\* pruning_configuration.get_backup_pruning_config(backup.name)
get_backup_pruning_config(pcs, name) ==
    IF name \in DOMAIN pcs THEN pcs[name] ELSE DefaultPruningConfig

\* an enumeration: the backend asked, and the backup it was asked for, None
\* when it was for a primed list token
Enumeration(backend, backup) == [backend |-> backend, backup |-> backup]

\* get_primed_list_token called on every backend of every backup
backend_not_in_map_unconditional(backend, map) == TRUE

\* get_backend_to_primed_list_token_map, line 112:
\* if backend not in backend_to_primed_list_token_map
backend_not_in_map(backend, map) == \A i \in 1..Len(map) : map[i] # backend

\* get_backend_to_primed_list_token_map, lines 110-114: the backends
\* get_primed_list_token is called on, in the order of the calls, from the
\* k-th backend of the b-th backup on
RECURSIVE primed_backends_loop(_, _, _, _)
primed_backends_loop(cfg, b, k, map) ==
    IF b > Len(cfg) THEN map
    ELSE IF k > Len(cfg[b].backends) THEN primed_backends_loop(cfg, b + 1, 1, map)
    ELSE primed_backends_loop(cfg, b, k + 1,
             IF backend_not_in_map(cfg[b].backends[k], map)
             THEN Append(map, cfg[b].backends[k]) ELSE map)

\* the enumerations of get_backend_to_primed_list_token_map: one
\* get_primed_list_token, which runs tarsnap --list-archives, for each
primed_list_tokens(cfg) ==
    LET map == primed_backends_loop(cfg, 1, 1, <<>>)
    IN  [i \in 1..Len(map) |-> Enumeration(map[i], None)]

\* the backends that have a token in backend_to_primed_list_token_map
PrimedBackends ==
    {enumerations[i].backend :
        i \in {j \in 1..Len(enumerations) : enumerations[j].backup = None}}

\* get_all_archives called without a map of tokens, as restore_backup does
get_all_archives_without_token(backend, primed) == <<>>

\* Backup.get_all_archives, lines 94-97: the token handed to
\* existing_archives_for_name, <<>> for None; the backend is asserted to
\* have one
get_all_archives_token(backend, primed) ==
    IF backend \in primed THEN <<backend>> ELSE <<>>

\* existing_archives_for_name, lines 130-135, and the enumerations after
\* it: the lines of the token are read, or a process is started
existing_archives_enumerations(made, backend, backup, token) ==
    IF token = <<>> THEN Append(made, Enumeration(backend, backup)) ELSE made

PruneInit ==
    /\ LateIdle
    /\ RunIdle
    /\ StoreIdle
    /\ SchedIdle
    /\ FlowIdle
    /\ RestoreIdle
    /\ utcoffset = 60 * 60
    /\ configured_backups = RestoreConfiguration
    /\ engine_archives = <<>>
    /\ pruning_config = None
    /\ engine = None
    /\ epc = "idle"
    /\ local_now = Datetime(BaseDay + 44, 12 * 60 * 60, 0)
    /\ pruning_configuration \in PruningConfigurations(configured_backups)
    /\ store \in StoredArchives(configured_backups, local_now, utcoffset)
    /\ token_map = <<>>
    /\ prune_pc = "start"
    /\ pb = 0
    /\ pk = 0
    /\ archives_to_prune = <<>>
    /\ pd = 0
    /\ destroy_calls = <<>>
    /\ enumerations = <<>>
    /\ SpecifierIdle

\* prune_archives: get_backend_to_primed_list_token_map, every backend
\* listed once before the loop
get_backend_to_primed_list_token_map ==
    /\ prune_pc = "start"
    /\ token_map' = store
    /\ enumerations' = enumerations \o primed_list_tokens(configured_backups)
    /\ pb' = 1
    /\ pk' = 1
    /\ prune_pc' = "loop"
    /\ UNCHANGED <<schedVars, flowVars, restoreVars, lateVars, storeVars,
                   runVars, engineVars, specifierVars,
                   pruning_configuration, store, archives_to_prune, pd,
                   destroy_calls>>

\* prune_archives: the next (backend, archives) of the backup, and
\* archives_to_prune = engine.prunable_archives(archives)
prune_prunable_archives ==
    /\ prune_pc = "loop"
    /\ pb <= Len(configured_backups)
    /\ pk <= Len(configured_backups[pb].backends)
    /\ LET backup == configured_backups[pb]
           cfg    == get_backup_pruning_config(pruning_configuration,
                                               backup.name)
           listed == token_map[<<backup.name, backup.backends[pk]>>]
       IN  /\ archives_to_prune' =
                  prunable_archives(listed, cfg, local_now, utcoffset).prunable
           /\ enumerations' =
                  existing_archives_enumerations(enumerations,
                      backup.backends[pk], backup.name,
                      get_all_archives_token(backup.backends[pk],
                                             PrimedBackends))
    /\ pd' = 1
    /\ prune_pc' = "pruning"
    /\ UNCHANGED <<schedVars, flowVars, restoreVars, lateVars, storeVars,
                   runVars, engineVars, specifierVars,
                   pruning_configuration, store, token_map, pb, pk,
                   destroy_calls>>

\* PruningEngine.prune_archives leaving its loop at a destroy that failed
prune_archives_stops_on_failure(to_prune, i, made) ==
    i > Len(to_prune) \/ (i > 1 /\ ~made[Len(made)].ok)

\* PruningEngine.prune_archives: `for archive in archives` is exhausted
prune_archives_loop_done(to_prune, i, made) == i > Len(to_prune)

\* archive.destroy(): the external tool exits with status 0 (and the
\* archive is gone) or not; the result is not looked at
archive_destroy ==
    /\ prune_pc = "pruning"
    /\ ~prune_archives_loop_done(archives_to_prune, pd, destroy_calls)
    /\ LET backup == configured_backups[pb]
           pair   == <<backup.name, backup.backends[pk]>>
           a      == archives_to_prune[pd]
       IN  \E ok \in BOOLEAN :
              /\ destroy_calls' = Append(destroy_calls,
                     [backup |-> pair[1], backend |-> pair[2],
                      archive |-> a, ok |-> ok])
              /\ store' = IF ok
                          THEN [store EXCEPT ![pair] =
                                   SelectSeq(@, LAMBDA x : x # a)]
                          ELSE store
    /\ pd' = pd + 1
    /\ UNCHANGED <<schedVars, flowVars, restoreVars, lateVars, storeVars,
                   runVars, engineVars, specifierVars,
                   pruning_configuration, token_map, prune_pc, pb, pk,
                   archives_to_prune, enumerations>>

\* engine.prune_archives returns: on to the next backend of the backup
prune_archives_returns ==
    /\ prune_pc = "pruning"
    /\ prune_archives_loop_done(archives_to_prune, pd, destroy_calls)
    /\ pk' = pk + 1
    /\ prune_pc' = "loop"
    /\ UNCHANGED <<schedVars, flowVars, restoreVars, lateVars, storeVars,
                   runVars, engineVars, specifierVars,
                   pruning_configuration, store, token_map, pb,
                   archives_to_prune, pd, destroy_calls, enumerations>>

\* prune_archives: the backends of the backup are exhausted, on to the next
\* backup
prune_next_backup ==
    /\ prune_pc = "loop"
    /\ pb <= Len(configured_backups)
    /\ pk > Len(configured_backups[pb].backends)
    /\ pb' = pb + 1
    /\ pk' = 1
    /\ UNCHANGED <<schedVars, flowVars, restoreVars, lateVars, storeVars,
                   runVars, engineVars, specifierVars,
                   pruning_configuration, store, token_map, prune_pc,
                   archives_to_prune, pd, destroy_calls, enumerations>>

\* prune_archives returns
prune_archives_done ==
    /\ prune_pc = "loop"
    /\ pb > Len(configured_backups)
    /\ prune_pc' = "done"
    /\ UNCHANGED <<schedVars, flowVars, restoreVars, lateVars, storeVars,
                   runVars, engineVars, specifierVars,
                   pruning_configuration, store, token_map, pb, pk,
                   archives_to_prune, pd, destroy_calls, enumerations>>

PruneNext ==
    \/ get_backend_to_primed_list_token_map
    \/ prune_prunable_archives
    \/ archive_destroy
    \/ prune_archives_returns
    \/ prune_next_backup
    \/ prune_archives_done

SpecPrune == PruneInit /\ [][PruneNext]_vars

-----------------------------------------------------------------------------
(* The prune flow's claim, checked under SpecPrune.                        *)

\* the position of a backup in the configuration, and of a backend among
\* the backends of that backup
BackupPosition(name) ==
    CHOOSE i \in 1..Len(configured_backups) : configured_backups[i].name = name

BackendPosition(name, backend) ==
    CHOOSE j \in 1..Len(BackendsOf(name)) : BackendsOf(name)[j] = backend

\* prune_archives is through with the pair, is destroying its archives, or
\* has not come to it
PairDone(pair) ==
    \/ prune_pc = "done"
    \/ BackupPosition(pair[1]) < pb
    \/ BackupPosition(pair[1]) = pb /\ BackendPosition(pair[1], pair[2]) < pk

PairCurrent(pair) ==
    /\ prune_pc = "pruning"
    /\ BackupPosition(pair[1]) = pb
    /\ BackendPosition(pair[1], pair[2]) = pk

\* the archives destroy was invoked on for a pair, in the order of the calls
RECURSIVE DestroyedOf(_, _)
DestroyedOf(pair, i) ==
    IF i > Len(destroy_calls) THEN <<>>
    ELSE (IF <<destroy_calls[i].backup, destroy_calls[i].backend>> = pair
          THEN <<destroy_calls[i].archive>> ELSE <<>>)
         \o DestroyedOf(pair, i + 1)

\* the prunable list of a pair: what the engine returns for the archives
\* listed at the start of the invocation
PrunableOf(pair) ==
    prunable_archives(token_map[pair],
                      get_backup_pruning_config(pruning_configuration, pair[1]),
                      local_now, utcoffset).prunable

\* C14: the prune flow invokes destroy exactly once on every archive of the
\* prunable set of a listing and never on a retained (fresh or
\* representative) archive; a destroy that reports failure does not stop
\* destroy from being invoked on the remaining prunable archives of that
\* listing or on those of later backups and backends.
C14_DestroyEachPrunableOnce ==
    prune_pc \in {"loop", "pruning", "done"} =>
        \A pair \in Pairs(configured_backups) :
            LET destroyed == DestroyedOf(pair, 1)
                prunable  == PrunableOf(pair)
            IN  /\ PairDone(pair) => destroyed = prunable
                /\ PairCurrent(pair) =>
                      /\ destroyed = SubSeq(prunable, 1, pd - 1)
                      /\ pd <= Len(prunable) => ENABLED archive_destroy
                /\ (~PairDone(pair) /\ ~PairCurrent(pair)) => destroyed = <<>>
                /\ \A i, j \in 1..Len(destroyed) :
                      destroyed[i] = destroyed[j] => i = j

\* the first destroy of a listing with two prunable archives failed, the
\* second was invoked, an archive of that listing was retained, and destroy
\* was invoked for a later backup as well
C14_Witness ==
    /\ prune_pc = "done"
    /\ \E i, j, k \in 1..Len(destroy_calls) :
          /\ i < j /\ j < k
          /\ ~destroy_calls[i].ok
          /\ destroy_calls[i].backup = destroy_calls[j].backup
          /\ destroy_calls[i].backend = destroy_calls[j].backend
          /\ destroy_calls[k].backup # destroy_calls[i].backup
    /\ \E pair \in Pairs(configured_backups) :
          Len(PrunableOf(pair)) < Len(token_map[pair])

-----------------------------------------------------------------------------
(* Strings and the conversions of Python the specifiers use.  A string is  *)
(* the sequence of its characters.  A float is [whole, fraction]: the      *)
(* signed whole part, and the digits after the point with the trailing     *)
(* zeros dropped (<<>> for a whole number).                                *)

DigitChars == <<"0", "1", "2", "3", "4", "5", "6", "7", "8", "9">>

IsDigit(c) == \E i \in 1..10 : DigitChars[i] = c

DigitValue(c) == (CHOOSE i \in 1..10 : DigitChars[i] = c) - 1

AllDigits(s) == \A i \in 1..Len(s) : IsDigit(s[i])

\* the number a string of digits denotes
RECURSIVE IntOfDigits(_)
IntOfDigits(s) ==
    IF s = <<>> THEN 0
    ELSE 10 * IntOfDigits(SubSeq(s, 1, Len(s) - 1)) + DigitValue(s[Len(s)])

\* str(n) of a natural number
RECURSIVE DigitsOf(_)
DigitsOf(n) ==
    IF n < 10 THEN <<DigitChars[n + 1]>>
    ELSE Append(DigitsOf(n \div 10), DigitChars[(n % 10) + 1])

\* n as two digits, zero-padded: "%02d"
TwoDigits(n) == <<DigitChars[(n \div 10) + 1], DigitChars[(n % 10) + 1]>>

\* str.strip(), of blanks
RECURSIVE Strip(_)
Strip(s) ==
    IF s = <<>> THEN s
    ELSE IF s[1] = " " THEN Strip(Tail(s))
    ELSE IF s[Len(s)] = " " THEN Strip(SubSeq(s, 1, Len(s) - 1))
    ELSE s

\* a sign, and what follows it
Signed(s) ==
    IF s # <<>> /\ s[1] \in {"-", "+"}
    THEN [negative |-> s[1] = "-", body |-> Tail(s)]
    ELSE [negative |-> FALSE, body |-> s]

\* where the first point of a string is, 0 if it has none
FirstDot(s) ==
    IF \E i \in 1..Len(s) : s[i] = "."
    THEN CHOOSE i \in 1..Len(s) : s[i] = "." /\ \A j \in 1..(i - 1) : s[j] # "."
    ELSE 0

RECURSIVE DropTrailingZeros(_)
DropTrailingZeros(s) ==
    IF s # <<>> /\ s[Len(s)] = "0"
    THEN DropTrailingZeros(SubSeq(s, 1, Len(s) - 1))
    ELSE s

\* int(s): ok is FALSE where int raises ValueError
int(s) ==
    LET t == Signed(Strip(s))
        ok == t.body # <<>> /\ AllDigits(t.body)
    IN  [ok |-> ok,
         value |-> IF ~ok THEN 0
                   ELSE IF t.negative THEN 0 - IntOfDigits(t.body)
                   ELSE IntOfDigits(t.body)]

\* float(s), of decimal notation (digits, at most one point, a sign): ok is
\* FALSE where float raises ValueError
float(s) ==
    LET t     == Signed(Strip(s))
        dot   == FirstDot(t.body)
        left  == IF dot = 0 THEN t.body ELSE SubSeq(t.body, 1, dot - 1)
        right == IF dot = 0 THEN <<>> ELSE SubSeq(t.body, dot + 1, Len(t.body))
        ok    == /\ AllDigits(left) /\ AllDigits(right)
                 /\ (left # <<>> \/ right # <<>>)
    IN  [ok |-> ok,
         negative |-> ok /\ t.negative,
         whole |-> IF ~ok THEN 0
                   ELSE IF t.negative THEN 0 - IntOfDigits(left)
                   ELSE IntOfDigits(left),
         fraction |-> IF ok THEN DropTrailingZeros(right) ELSE <<>>]

\* "." in s
HasDot(s) == FirstDot(s) # 0

\* value > n, of a float and a natural number
FloatGreater(f, n) ==
    /\ ~f.negative
    /\ (f.whole > n \/ (f.whole = n /\ f.fraction # <<>>))

-----------------------------------------------------------------------------
(* archive_specifiers.py: the three concrete specifiers and the choice     *)
(* among them.                                                             *)

\* what dateutil.parser.parse raises an error for
NoParse == [ok |-> FALSE, datetime |-> NoDatetime, tz |-> <<>>]

ValidDate(y, m, d) ==
    /\ 1 <= y /\ y <= 9999
    /\ 1 <= m /\ m <= 12
    /\ 1 <= d /\ d <= DaysInMonth(y, m)

ValidTime(h, mi, sec) == h < 24 /\ mi < 60 /\ sec < 60

\* the fields parsed replace those of the default, and the result has to be
\* a date and a time that exist
Parsed(y, m, d, h, mi, sec, tz) ==
    IF ValidDate(y, m, d) /\ ValidTime(h, mi, sec)
    THEN [ok |-> TRUE, datetime |-> FuzzyDate(y, m, d, h, mi, sec), tz |-> tz]
    ELSE NoParse

\* the digits of s from position a to position b, as a number: <<n>>, or
\* <<>> where they are not all digits
Part(s, a, b) ==
    IF b <= Len(s) /\ AllDigits(SubSeq(s, a, b))
    THEN <<IntOfDigits(SubSeq(s, a, b))>> ELSE <<>>

\* a single number token t, with or without a fraction.  One of 8, 12 or 14
\* characters is read as YYYYMMDD[hhmm[ss]]; any other is cut to its whole
\* part, which is a year when more than 31 and a day of the month if not.
\* (Tokens of six characters, read as YYMMDD or hhmmss, two-digit years and
\* the days 29 to 31, whose month is that of the default, are not among the
\* strings probed.)
dateutil_parse_number(t, default) ==
    LET dot   == FirstDot(t)
        whole == IF dot = 0 THEN t ELSE SubSeq(t, 1, dot - 1)
        dflt  == default
    IN  IF Len(t) \in {8, 12, 14}
        THEN LET y  == Part(t, 1, 4)
                 m  == Part(t, 5, 6)
                 d  == Part(t, 7, 8)
                 h  == IF Len(t) > 8 THEN Part(t, 9, 10) ELSE <<0>>
                 mi == IF Len(t) > 8 THEN Part(t, 11, 12) ELSE <<0>>
                 sc == IF Len(t) > 12 THEN Part(t, 13, 14) ELSE <<0>>
             IN  IF \E p \in {y, m, d, h, mi, sc} : p = <<>> THEN NoParse
                 ELSE Parsed(y[1], m[1], d[1], h[1], mi[1], sc[1], <<>>)
        ELSE IF Len(t) = 6 \/ Len(whole) > 10 THEN NoParse
        ELSE LET v == IntOfDigits(whole)
             IN  IF v > 31
                 THEN Parsed(v, dflt.month, dflt.day, 0, 0, 0, <<>>)
                 ELSE Parsed(dflt.year, dflt.month, v, 0, 0, 0, <<>>)

\* t is a number: digits, and perhaps a point and more digits
IsNumberToken(t) ==
    LET dot == FirstDot(t)
    IN  IF dot = 0 THEN t # <<>> /\ AllDigits(t)
        ELSE /\ dot > 1 /\ dot < Len(t)
             /\ AllDigits(SubSeq(t, 1, dot - 1))
             /\ AllDigits(SubSeq(t, dot + 1, Len(t)))

\* t is YYYY-MM-DD, perhaps followed by a blank or a T and hh:mm or
\* hh:mm:ss, perhaps followed by Z
IsoShape(t) ==
    LET z    == t # <<>> /\ t[Len(t)] = "Z"
        body == IF z THEN SubSeq(t, 1, Len(t) - 1) ELSE t
        at(i, c) == body[i] = c
        digits(a, b) == AllDigits(SubSeq(body, a, b))
    IN  /\ Len(body) \in {10, 16, 19}
        /\ digits(1, 4) /\ at(5, "-") /\ digits(6, 7) /\ at(8, "-")
        /\ digits(9, 10)
        /\ Len(body) >= 16 =>
              /\ body[11] \in {" ", "T"}
              /\ digits(12, 13) /\ at(14, ":") /\ digits(15, 16)
        /\ Len(body) = 19 => at(17, ":") /\ digits(18, 19)

dateutil_parse_iso(t) ==
    LET z    == t[Len(t)] = "Z"
        body == IF z THEN SubSeq(t, 1, Len(t) - 1) ELSE t
        n(a, b) == IntOfDigits(SubSeq(body, a, b))
    IN  Parsed(n(1, 4), n(6, 7), n(9, 10),
               IF Len(body) >= 16 THEN n(12, 13) ELSE 0,
               IF Len(body) >= 16 THEN n(15, 16) ELSE 0,
               IF Len(body) = 19 THEN n(18, 19) ELSE 0,
               IF z THEN <<0>> ELSE <<>>)

\* dateutil.parser.parse(s, default=default), of the strings the probe
\* writes: blanks and a "-" before a number are skipped
dateutil_parse(s, default) ==
    LET t == Strip(s)
        u == IF t # <<>> /\ t[1] = "-" THEN Tail(t) ELSE t
    IN  IF IsoShape(t) THEN dateutil_parse_iso(t)
        ELSE IF IsNumberToken(u) THEN dateutil_parse_number(u, default)
        ELSE NoParse

\* the default of parse: today at midnight
Today == FuzzyDate(2014, 12, 31, 0, 0, 0)

\* datetime.datetime(year=1, month=1, day=1)
SentinelDefault == FuzzyDate(1, 1, 1, 0, 0, 0)

ORDINAL == "ordinal"
TIMESTAMP == "timestamp"
FUZZY == "fuzzy"

\* the threshold of OrdinalArchiveSpecifier including 1000000000
acceptable_specifier_ordinal_inclusive(cls, s) ==
    CASE cls = ORDINAL   -> int(s).ok /\ int(s).value <= 1000000000
      [] cls = TIMESTAMP -> float(s).ok
                              /\ (FloatGreater(float(s), 1000000000) \/ HasDot(s))
      [] cls = FUZZY     -> dateutil_parse(s, Today).ok

\* cls.acceptable_specifier(specifier_str)
acceptable_specifier(cls, s) ==
    CASE cls = ORDINAL   -> int(s).ok /\ int(s).value < 1000000000
      [] cls = TIMESTAMP -> float(s).ok
                              /\ (FloatGreater(float(s), 1000000000) \/ HasDot(s))
      [] cls = FUZZY     -> dateutil_parse(s, Today).ok

\* cls(specifier_str): the __init__ of the three classes
Construct(cls, s, off) ==
    CASE cls = ORDINAL   ->
            Specifier(ORDINAL, int(s).value, 0, NoDatetime, 0)
      [] cls = TIMESTAMP ->
            [Specifier(TIMESTAMP, 0, float(s).whole, NoDatetime, 0)
                EXCEPT !.fraction = float(s).fraction]
      [] cls = FUZZY     ->
            LET dt == dateutil_parse(s, SentinelDefault)
            IN  Specifier(FUZZY, 0, 0, dt.datetime,
                          IF dt.tz = <<>> THEN off ELSE dt.tz[1])

\* ArchiveSpecifierMeta.__call__ on the abstract class: the first type of
\* the iteration that accepts the string, NoSpecifier for the ValueError
RECURSIVE ArchiveSpecifier(_, _, _, _)
ArchiveSpecifier(s, order, i, off) ==
    IF i > Len(order) THEN NoSpecifier
    ELSE IF acceptable_specifier(order[i], s) THEN Construct(order[i], s, off)
    ELSE ArchiveSpecifier(s, order, i + 1, off)

\* the orders in which a set of the three classes may be iterated
IterationOrders ==
    { o \in [1..3 -> {ORDINAL, TIMESTAMP, FUZZY}] :
         \A i, j \in 1..3 : o[i] = o[j] => i = j }

-----------------------------------------------------------------------------
(* The specifier probe: a string is written from a number or a date, a     *)
(* specifier is built from it with the classes iterated in some order, and *)
(* the specifier is evaluated on an archive at a position.                 *)

MaxPosition == 5        \* the positions an archive is evaluated at

NumberStyles == {"digits", "minus", "point zero", "point five", "blank"}

DateStyles == {"date", "minutes", "seconds", "utc minutes"}

\* the numbers written: positions, a year, a date run together, the two
\* sides of the threshold, and a timestamp of 2014
ProbeNumbers == {0, 1, 5, 2014, 20141117, 999999999, 1000000000, 1000000001,
                 1416279400}

\* the dates written, all with a day in 2014-11
ProbeDates == { FuzzyDate(2014, 11, 17, 0, 0, 0),
                FuzzyDate(2014, 11, 17, 12, 0, 0),
                FuzzyDate(2014, 11, 17, 12, 30, 0),
                FuzzyDate(2014, 11, 17, 12, 30, 30),
                FuzzyDate(2014, 11, 18, 0, 0, 0) }

\* strings that are neither a number nor a date
ProbeTexts == { <<"x">>, <<"5", "x">> }

Probes ==
    { [style |-> st, number |-> n, date |-> NoDatetime, text |-> <<>>] :
         st \in NumberStyles, n \in ProbeNumbers }
    \cup
    { [style |-> st, number |-> 0, date |-> d, text |-> <<>>] :
         st \in DateStyles, d \in ProbeDates }
    \cup
    { [style |-> "text", number |-> 0, date |-> NoDatetime, text |-> t] :
         t \in ProbeTexts }

\* the string a probe is written as
Written(p) ==
    LET ymd == DigitsOf(p.date.year) \o <<"-">> \o TwoDigits(p.date.month)
                  \o <<"-">> \o TwoDigits(p.date.day)
        hm  == TwoDigits(p.date.hour) \o <<":">> \o TwoDigits(p.date.minute)
    IN  CASE p.style = "digits"      -> DigitsOf(p.number)
          [] p.style = "minus"       -> <<"-">> \o DigitsOf(p.number)
          [] p.style = "point zero"  -> DigitsOf(p.number) \o <<".", "0">>
          [] p.style = "point five"  -> DigitsOf(p.number) \o <<".", "5">>
          [] p.style = "blank"       -> <<" ">> \o DigitsOf(p.number)
          [] p.style = "date"        -> ymd
          [] p.style = "minutes"     -> ymd \o <<" ">> \o hm
          [] p.style = "seconds"     ->
                ymd \o <<" ">> \o hm \o <<":">> \o TwoDigits(p.date.second)
          [] p.style = "utc minutes" -> ymd \o <<"T">> \o hm \o <<"Z">>
          [] p.style = "text"        -> p.text

\* the archives a specifier is evaluated on
ProbeArchives(off) ==
    { [timestamp |-> t, fullname |-> 1] :
         t \in { 1000000001, 1416279400,
                 mktime(Datetime(BaseDay, 0, 0), off),
                 mktime(Datetime(BaseDay, 12 * 60 * 60, 0), off),
                 mktime(Datetime(BaseDay, 12 * 60 * 60 + 30 * 60, 0), off),
                 mktime(Datetime(BaseDay, 12 * 60 * 60 + 30 * 60 + 30, 0), off) } }

SpecifierInit ==
    /\ LateIdle
    /\ RunIdle
    /\ StoreIdle
    /\ SchedIdle
    /\ FlowIdle
    /\ RestoreIdle
    /\ EngineIdle
    /\ PruneIdle
    /\ utcoffset \in UtcOffsets
    /\ configured_backups = <<>>
    /\ probe \in Probes
    /\ specifier_str = Written(probe)
    /\ concrete_order \in IterationOrders
    /\ built = NoSpecifier
    /\ probe_archive \in ProbeArchives(utcoffset)
    /\ probe_ordinal \in 0..MaxPosition
    /\ evaluated = <<>>
    /\ xpc = "ready"

\* spec = ArchiveSpecifier(specifier_str); the ValueError ends the probe
build_specifier ==
    /\ xpc = "ready"
    /\ built' = ArchiveSpecifier(specifier_str, concrete_order, 1, utcoffset)
    /\ xpc' = IF built' = NoSpecifier THEN "raised" ELSE "built"
    /\ UNCHANGED <<schedVars, flowVars, restoreVars, lateVars, storeVars,
                   runVars, engineVars, pruneVars,
                   probe, specifier_str, concrete_order, probe_archive,
                   probe_ordinal, evaluated>>

\* spec.evaluate(archive, ordinal)
evaluate_specifier ==
    /\ xpc = "built"
    /\ evaluated' = <<evaluate(built, probe_archive, probe_ordinal, utcoffset)>>
    /\ xpc' = "evaluated"
    /\ UNCHANGED <<schedVars, flowVars, restoreVars, lateVars, storeVars,
                   runVars, engineVars, pruneVars,
                   probe, specifier_str, concrete_order, built, probe_archive,
                   probe_ordinal>>

SpecifierNext == build_specifier \/ evaluate_specifier

SpecSpecifier == SpecifierInit /\ [][SpecifierNext]_vars

\* the probe has built its specifier, or failed to
Built == xpc \in {"built", "evaluated", "raised"}

\* the number a probe of a number style is written from, with its sign
Number(p) == IF p.style = "minus" THEN 0 - p.number ELSE p.number

\* the probe is written as an integer
WrittenAsInteger(p) == p.style \in {"digits", "minus", "blank"}

\* the probe is written as a number
WrittenAsNumber(p) == p.style \in NumberStyles

\* C15: asked first, the Ordinal class accepts a string exactly when it is
\* written as an integer below 1,000,000,000; and an Ordinal specifier
\* matches exactly at the position that integer names, whatever the archive
\* is.
C15_OrdinalAcceptsAndMatches ==
    /\ (Built /\ concrete_order[1] = ORDINAL) =>
          (built.kind = ORDINAL <=>
              WrittenAsInteger(probe) /\ Number(probe) < 1000000000)
    /\ (xpc = "evaluated" /\ built.kind = ORDINAL) =>
          /\ WrittenAsInteger(probe)
          /\ evaluated[1] <=> (probe_ordinal = Number(probe))

\* "5" was built as an Ordinal and matched the archive at position 5
C15_Witness ==
    /\ xpc = "evaluated"
    /\ built.kind = ORDINAL
    /\ probe.style = "digits" /\ probe.number = 5
    /\ probe_ordinal = 5
    /\ evaluated = <<TRUE>>


\* C16: asked first, the Timestamp class accepts a string exactly when it
\* is written as a number that is at least 1,000,000,000 or has a decimal
\* point; and a Timestamp specifier matches exactly the archives whose
\* timestamp is that number.
C16_TimestampAcceptsAndMatches ==
    /\ (Built /\ concrete_order[1] = TIMESTAMP) =>
          (built.kind = TIMESTAMP <=>
              /\ WrittenAsNumber(probe)
              /\ \/ Number(probe) >= 1000000000
                 \/ probe.style \in {"point zero", "point five"})
    /\ (xpc = "evaluated" /\ built.kind = TIMESTAMP) =>
          (evaluated[1] <=>
              /\ probe.style # "point five"
              /\ probe_archive.timestamp = Number(probe))

\* the kinds of specifier the string is built as, over the orders the
\* classes may be iterated in
KindsBuilt(s) ==
    { ArchiveSpecifier(s, o, 1, utcoffset).kind : o \in IterationOrders }

\* C17: the kind of specifier built from a string is the same in whatever
\* order the classes are asked, and a string no class accepts raises the
\* error.
C17_KindDependsOnStringAlone ==
    Built =>
       /\ KindsBuilt(specifier_str) = {built.kind}
       /\ xpc = "raised" <=>
             \A cls \in {ORDINAL, TIMESTAMP, FUZZY} :
                ~acceptable_specifier(cls, specifier_str)

\* how many of the six fields a probe of a date style supplies
Supplied(p) ==
    CASE p.style = "date" -> 3
      [] p.style \in {"minutes", "utc minutes"} -> 5
      [] p.style = "seconds" -> 6

\* C18: a specifier built from a date matches an archive exactly when the
\* archive's time, in the timezone of the specifier, has the fields the
\* string supplies, those that are zero too, and is compared on no other.
C18_FuzzyComparesSuppliedFields ==
    (xpc = "evaluated" /\ probe.style \in DateStyles) =>
       LET to == IF probe.style = "utc minutes" THEN 0 ELSE utcoffset
           a  == FieldsIn(ArchiveDatetime(probe_archive, utcoffset),
                          utcoffset, to)
       IN  /\ built.kind = FUZZY
           /\ evaluated[1] <=>
                 \A k \in 1..Supplied(probe) :
                    probe.date[FuzzyFields[k]] = a[FuzzyFields[k]]

-----------------------------------------------------------------------------
(* backup_backends/tarsnap.py: the names archives are created under and    *)
(* the listing parsed back.  The backends share one tarsnap key, so each   *)
(* lists the archives of all.  A name is the sequence of its characters.   *)

\* the strings a digest is taken of
RECURSIVE Enumerated(_)
Enumerated(S) ==
    IF S = {} THEN <<>>
    ELSE LET x == CHOOSE y \in S : TRUE
         IN  <<x>> \o Enumerated(S \ {x})

\* hashlib.sha1 of a string, as hexdigest: a string of hex digits of one
\* length, two here, different for different strings
hexdigest(s, hashed) ==
    TwoDigits(CHOOSE i \in 1..Len(hashed) : hashed[i] = s)

\* TarsnapBackend.create_backup_identifier: the backend's name and the
\* backup's are fed to the digest one after the other
create_backup_identifier(backend, backup_name, hashed) ==
    hexdigest(backend \o backup_name, hashed)

\* "{}".format(unixtime) of a float that is whole
FormatFloat(t) == DigitsOf(t) \o <<".", "0">>

\* the instance name with the time written as an integer
create_backup_instance_name_whole(backend, backup_name, timestamp, off, hashed) ==
    create_backup_identifier(backend, backup_name, hashed)
       \o <<"-">> \o DigitsOf(mktime(timestamp, off))
       \o <<"-">> \o backup_name

\* TarsnapBackend.create_backup_instance_name
create_backup_instance_name(backend, backup_name, timestamp, off, hashed) ==
    create_backup_identifier(backend, backup_name, hashed)
       \o <<"-">> \o FormatFloat(mktime(timestamp, off))
       \o <<"-">> \o backup_name

\* \d+(.\d+)? matches the whole of s: digits, and perhaps any one character
\* but a newline and more digits
MatchesTimestamp(s) ==
    \/ s # <<>> /\ AllDigits(s)
    \/ \E i \in 2..(Len(s) - 1) :
          /\ AllDigits(SubSeq(s, 1, i - 1))
          /\ s[i] # "\n"
          /\ AllDigits(SubSeq(s, i + 1, Len(s)))

NoMatch == [ok |-> FALSE, group |-> <<>>, timestamp |-> <<>>]

\* backup_instance_regex(identifier, name).match(line): the identifier and
\* the name are escaped, so they match themselves; $ matches at the end and
\* before a newline that ends the line
regex_match(identifier, name, line) ==
    LET text == IF line # <<>> /\ line[Len(line)] = "\n"
                THEN SubSeq(line, 1, Len(line) - 1) ELSE line
        head == identifier \o <<"-">>
        tail == <<"-">> \o name
        from == Len(head) + 1
        to   == Len(text) - Len(tail)
    IN  IF /\ from <= to
           /\ SubSeq(text, 1, Len(head)) = head
           /\ SubSeq(text, to + 1, Len(text)) = tail
           /\ MatchesTimestamp(SubSeq(text, from, to))
        THEN [ok |-> TRUE, group |-> text, timestamp |-> SubSeq(text, from, to)]
        ELSE NoMatch

\* TarsnapArchive(backend, timestamp, fullname, backup_name); the timestamp
\* is a float
TarsnapArchive(backend, timestamp, fullname, backup_name) ==
    [backend |-> backend, timestamp |-> timestamp, fullname |-> fullname,
     backup_name |-> backup_name]

\* what existing_archives_for_name comes to: the results, or the
\* ValueError of float
Listed(raises, found) == [raises |-> raises, results |-> found]

\* the loop of existing_archives_for_name over the lines, from line i
RECURSIVE existing_archives_loop(_, _, _, _, _)
existing_archives_loop(backend, backup_name, identifier, lines, i) ==
    IF i > Len(lines) THEN Listed(FALSE, <<>>)
    ELSE LET m    == regex_match(identifier, backup_name, lines[i])
             ts   == float(m.timestamp)
             rest == existing_archives_loop(backend, backup_name, identifier,
                                            lines, i + 1)
         IN  IF ~m.ok THEN rest
             ELSE IF ~ts.ok \/ rest.raises THEN Listed(TRUE, <<>>)
             ELSE Listed(FALSE,
                         <<TarsnapArchive(backend, ts, m.group, backup_name)>>
                            \o rest.results)

\* TarsnapBackend.existing_archives_for_name
existing_archives_for_name(backend, backup_name, lines, hashed) ==
    existing_archives_loop(backend, backup_name,
        create_backup_identifier(backend, backup_name, hashed), lines, 1)

MaxHeld == 2            \* archives the tarsnap key holds

\* backends and backups whose names run into each other: "k" with "5-c"
\* and "k5-" with "c" feed the digest the same characters
StoreBackends == { <<"k">>, <<"k", "5", "-">> }

StoreBackups == { <<"c">>, <<"5", "-", "c">> }

HashedStrings == Enumerated({ k \o b : k \in StoreBackends, b \in StoreBackups })

\* the times backups are made at: two in one second, one the day after
StoreTimes == { Datetime(BaseDay, 12 * 60 * 60, 0),
                Datetime(BaseDay, 12 * 60 * 60, 999999),
                Datetime(BaseDay + 1, 0, 0) }

\* what tarsnap --list-archives prints: a line for each archive
ListArchives(held) == [i \in 1..Len(held) |-> held[i].fullname \o <<"\n">>]

\* no listing was asked for
NoListing == [backend |-> <<>>, backup_name |-> <<>>]

StoreInit ==
    /\ LateIdle
    /\ RunIdle
    /\ SchedIdle
    /\ FlowIdle
    /\ RestoreIdle
    /\ EngineIdle
    /\ PruneIdle
    /\ SpecifierIdle
    /\ utcoffset = 60 * 60
    /\ configured_backups = <<>>
    /\ tarsnap_archives = <<>>
    /\ performed = <<>>
    /\ listed_for = NoListing
    /\ results = <<>>
    /\ tpc = "ready"

\* TarsnapBackend.perform: tarsnap -cf makes the archive, and fails where
\* an archive of that name exists or for a reason of its own.  What is held
\* is kept with the backend, the backup and the time it was made for.
tarsnap_perform ==
    /\ tpc # "idle"
    /\ Len(tarsnap_archives) < MaxHeld
    /\ \E backend \in StoreBackends, backup_name \in StoreBackups,
          now_timestamp \in StoreTimes, code \in {0, 1} :
          LET name == create_backup_instance_name(backend, backup_name,
                          now_timestamp, utcoffset, HashedStrings)
              made == /\ code = 0
                      /\ \A i \in 1..Len(tarsnap_archives) :
                            tarsnap_archives[i].fullname # name
          IN  /\ tarsnap_archives' =
                    IF made
                    THEN Append(tarsnap_archives,
                                [fullname |-> name, backend |-> backend,
                                 backup_name |-> backup_name,
                                 unixtime |-> mktime(now_timestamp, utcoffset)])
                    ELSE tarsnap_archives
              /\ performed' = <<made>>
    /\ listed_for' = NoListing
    /\ results' = <<>>
    /\ tpc' = "performed"
    /\ UNCHANGED <<schedVars, flowVars, restoreVars, lateVars, engineVars,
                   pruneVars,
                   specifierVars, runVars>>

\* backend.existing_archives_for_name(backup_name)
tarsnap_existing_archives_for_name ==
    /\ tpc # "idle"
    /\ \E backend \in StoreBackends, backup_name \in StoreBackups :
          LET found == existing_archives_for_name(backend, backup_name,
                           ListArchives(tarsnap_archives), HashedStrings)
          IN  /\ listed_for' = [backend |-> backend, backup_name |-> backup_name]
              /\ results' = found.results
              /\ tpc' = IF found.raises THEN "raised" ELSE "listed"
    /\ performed' = <<>>
    /\ UNCHANGED <<schedVars, flowVars, restoreVars, lateVars, engineVars,
                   pruneVars,
                   specifierVars, runVars, tarsnap_archives>>

StoreNext == tarsnap_perform \/ tarsnap_existing_archives_for_name

SpecStore == StoreInit /\ [][StoreNext]_vars

\* the archives held that were made by a backend for a backup, as the
\* listing is to return them
RECURSIVE MadeBy(_, _, _, _)
MadeBy(backend, backup_name, held, i) ==
    IF i > Len(held) THEN <<>>
    ELSE (IF held[i].backend = backend /\ held[i].backup_name = backup_name
          THEN <<TarsnapArchive(backend,
                     [ok |-> TRUE, negative |-> FALSE,
                      whole |-> held[i].unixtime, fraction |-> <<>>],
                     held[i].fullname, backup_name)>>
          ELSE <<>>)
         \o MadeBy(backend, backup_name, held, i + 1)

\* C19: a listing never raises and returns, in the order tarsnap holds
\* them, exactly the archives made by that backend for that backup, each
\* under the name and with the time it was made with; and the name of every
\* archive held parses back, for its own backend and backup, to its time.
C19_ListingReturnsOwnArchives ==
    /\ tpc # "raised"
    /\ tpc = "listed" =>
          results = MadeBy(listed_for.backend, listed_for.backup_name,
                           tarsnap_archives, 1)
    /\ \A i \in 1..Len(tarsnap_archives) :
          LET a == tarsnap_archives[i]
              m == regex_match(
                      create_backup_identifier(a.backend, a.backup_name,
                                               HashedStrings),
                      a.backup_name, a.fullname)
          IN  /\ m.ok
              /\ float(m.timestamp).whole = a.unixtime
              /\ float(m.timestamp).fraction = <<>>

\* "k5-" listed its archive of "c" while the key also held an archive of
\* "5-c" made by "k", whose identifier is the same
C19_Witness ==
    /\ tpc = "listed"
    /\ listed_for = [backend |-> <<"k", "5", "-">>, backup_name |-> <<"c">>]
    /\ Len(results) = 1
    /\ \E i \in 1..Len(tarsnap_archives) :
          /\ tarsnap_archives[i].backend = <<"k">>
          /\ tarsnap_archives[i].backup_name = <<"5", "-", "c">>

-----------------------------------------------------------------------------
(* configuration.py: Config.__init__ reading /etc/backupmgr.conf.  A JSON  *)
(* value is [type, chars, items]: the characters of a string, the items of *)
(* a list; a value that is absent is null.                                 *)

Json(type, chars, items) == [type |-> type, chars |-> chars, items |-> items]

Null == Json("null", <<>>, <<>>)

Str(chars) == Json("str", chars, <<>>)

List(items) == Json("list", <<>>, items)

\* a number, where a string or a list is expected
Num == Json("int", <<>>, <<>>)

\* isinstance(x, basestring)
IsStr(x) == x.type = "str"

\* isinstance(x, list)
IsList(x) == x.type = "list"

\* what Config.__init__ or a function it calls raises; type "None" is for
\* nothing raised
Raised(type, message) == [type |-> type, message |-> message]

NotRaised == Raised("None", "")

InvalidConfigError(msg) == Raised("InvalidConfigError", msg)

\* str.lower(), of the letters the timespecs are written in
UpperCase == <<"M", "W", "D">>

LowerCase == <<"m", "w", "d">>

lower(s) ==
    [i \in 1..Len(s) |->
        IF \E j \in 1..Len(UpperCase) : UpperCase[j] = s[i]
        THEN LowerCase[CHOOSE j \in 1..Len(UpperCase) : UpperCase[j] = s[i]]
        ELSE s[i]]

\* s1[:required_length] == s2[:required_length]
prefix_match(s1, s2, required_length) ==
    LET cut(s) == SubSeq(s, 1, IF Len(s) < required_length THEN Len(s)
                               ELSE required_length)
    IN  cut(s1) = cut(s2)

\* the two letters a weekday is known by
WeekdayPrefixes == << <<"m", "o">>, <<"t", "u">>, <<"w", "e">>, <<"t", "h">>,
                      <<"f", "r">>, <<"s", "a">>, <<"s", "u">> >>

\* validate_timespec: the token of one item, "None" for an item that names
\* no weekday
TimespecItem(item) ==
    IF \E i \in 1..7 : prefix_match(item, WeekdayPrefixes[i], 2)
    THEN WEEKDAYS[CHOOSE i \in 1..7 :
                     /\ prefix_match(item, WeekdayPrefixes[i], 2)
                     /\ \A j \in 1..(i - 1) :
                           ~prefix_match(item, WeekdayPrefixes[j], 2)]
    ELSE "None"

\* validate_timespec(spec): what it raises, and the timespec it returns
validate_timespec(value) ==
    LET word == lower(value.chars)
        list == IF IsStr(value) THEN List(<<value>>) ELSE value
    IN  IF IsStr(value) /\ word = <<"w", "e", "e", "k", "l", "y">>
        THEN [raised |-> NotRaised, timespec |-> {WEEKLY}]
        ELSE IF IsStr(value) /\ word = <<"m", "o", "n", "t", "h", "l", "y">>
        THEN [raised |-> NotRaised, timespec |-> {MONTHLY}]
        ELSE IF IsStr(value) /\ word = <<"d", "a", "i", "l", "y">>
        THEN [raised |-> NotRaised, timespec |-> WeekdayTokens]
        ELSE IF ~IsList(list) \/ \E i \in 1..Len(list.items) : ~IsStr(list.items[i])
        THEN [raised |-> InvalidConfigError("Invalid timespec"), timespec |-> {}]
        ELSE [raised   |-> NotRaised,
              timespec |-> { TimespecItem(lower(list.items[i].chars)) :
                                i \in 1..Len(list.items) }]

\* a dictionary of paths: [type, entries], an entry being a key, which is a
\* string, and a value
Paths(type, entries) == [type |-> type, entries |-> entries]

PathEntry(key, value) == [key |-> key, value |-> value]

Contains(s, c) == \E i \in 1..Len(s) : s[i] = c

\* validate_paths: the loop over the entries, from entry i
RECURSIVE validate_paths_loop(_, _, _)
validate_paths_loop(entries, i, names) ==
    IF i > Len(entries) THEN NotRaised
    ELSE LET path == entries[i].key
             name == entries[i].value.chars
         IN  IF path = <<>> \/ path[1] # "/"
             THEN InvalidConfigError("was not an absolute path")
             ELSE IF \/ name = <<>>
                     \/ Contains(name, "/")
                     \/ Contains(name, "\\")
                     \/ name = <<".", ".">>
             THEN InvalidConfigError("Invalid name")
             ELSE IF name \in names
             THEN InvalidConfigError("Name collision")
             ELSE validate_paths_loop(entries, i + 1, names \cup {name})

\* validate_paths(paths): what it raises
validate_paths(paths) ==
    IF \/ paths.type # "dict"
       \/ \E i \in 1..Len(paths.entries) : ~IsStr(paths.entries[i].value)
    THEN InvalidConfigError("paths should be a string -> string dictionary")
    ELSE validate_paths_loop(paths.entries, 1, {})

\* the dictionary of a backend: its "type" and its "name", null where the
\* key is null, absent where there is no such key
BackendDict(type, typestr, name) ==
    [type |-> type, typestr |-> typestr, name |-> name]

Absent == Json("absent", <<>>, <<>>)

\* backend_types.backend_type(name): the types registered
BackendTypes == { <<"t", "a", "r", "s", "n", "a", "p">> }

\* parse_backend_type(backend_dict): what it raises
parse_backend_type(backend_dict) ==
    IF backend_dict.type # "dict"
    THEN InvalidConfigError("Expected a dictionary describing the backend")
    ELSE IF ~IsStr(backend_dict.typestr)
            \/ backend_dict.typestr.chars \notin BackendTypes
    THEN InvalidConfigError("missing or invalid type for backend")
    ELSE IF backend_dict.name = Absent
    THEN Raised("KeyError", "name")
    ELSE IF backend_dict.name = Null
    THEN Raised("BackendConfigurationError", "Missing name for backend")
    ELSE NotRaised

\* the first thing raised, of a list of what was raised in turn
RECURSIVE FirstRaised(_)
FirstRaised(rs) ==
    IF rs = <<>> THEN NotRaised
    ELSE IF rs[1] # NotRaised THEN rs[1]
    ELSE FirstRaised(Tail(rs))

\* the dictionary of a backup
BackupDict(type, name, paths, ts, backends) ==
    [type |-> type, name |-> name, paths |-> paths, timespec |-> ts,
     backends |-> backends]

\* parse_backup(backup_dict): what it raises, given the names of the
\* backends configured
parse_backup(backup_dict, configured_backends) ==
    IF backup_dict.type # "dict"
    THEN InvalidConfigError("Expected a dictionary describing the backup")
    ELSE FirstRaised(<<
        validate_paths(backup_dict.paths),
        validate_timespec(backup_dict.timespec).raised,
        IF backup_dict.name = Null
        THEN InvalidConfigError("Backups must have names") ELSE NotRaised,
        IF \/ ~IsList(backup_dict.backends)
           \/ \E i \in 1..Len(backup_dict.backends.items) :
                 ~IsStr(backup_dict.backends.items[i])
        THEN InvalidConfigError("Expected a list of strings for backends")
        ELSE NotRaised,
        IF \E i \in 1..Len(backup_dict.backends.items) :
              backup_dict.backends.items[i].chars \notin configured_backends
        THEN InvalidConfigError("Could not find backend") ELSE NotRaised >>)

\* the file /etc/backupmgr.conf: whether open finds it, whether it is
\* JSON, and its "backends" and "backups"
ConfigFile(errno, json, backends, bks) ==
    [errno |-> errno, json |-> json, backends |-> backends, backups |-> bks]

\* the ConfiguredBackup of a backup dictionary
ConfiguredBackup(backup_dict) ==
    [name     |-> backup_dict.name.chars,
     timespec |-> validate_timespec(backup_dict.timespec).timespec,
     backends |-> [i \in 1..Len(backup_dict.backends.items) |->
                      backup_dict.backends.items[i].chars]]

NoConfig == [raised |-> NotRaised, configured_backends |-> {},
             configured_backups |-> <<>>]

\* Config.__init__, lines 316-377: what it raises, or the backends and the
\* backups configured
Config(file) ==
    LET raise(r) == [NoConfig EXCEPT !.raised = r]
        be_dicts == file.backends.items
        bk_dicts == file.backups.items
        names    == { be_dicts[i].name.chars : i \in 1..Len(be_dicts) }
        first_backend ==
            FirstRaised([i \in 1..Len(be_dicts) |->
                            parse_backend_type(be_dicts[i])])
        first_backup ==
            FirstRaised([i \in 1..Len(bk_dicts) |->
                            parse_backup(bk_dicts[i], names)])
    IN  IF file.errno = "ENOENT" THEN raise(Raised("NoConfigError", "No config exists."))
        ELSE IF file.errno # "" THEN raise(Raised("IOError", file.errno))
        ELSE IF ~file.json THEN raise(InvalidConfigError("json"))
        ELSE IF ~IsList(file.backends)
        THEN raise(InvalidConfigError("Expected a list of backends"))
        ELSE IF first_backend # NotRaised THEN raise(first_backend)
        ELSE IF ~IsList(file.backups)
        THEN raise(InvalidConfigError("Expected a list of backups"))
        ELSE IF first_backup # NotRaised THEN raise(first_backup)
        ELSE IF \E i, j \in 1..Len(bk_dicts) :
                   i # j /\ bk_dicts[i].name = bk_dicts[j].name
        THEN raise(InvalidConfigError("Duplicate backup"))
        ELSE [raised |-> NotRaised,
              configured_backends |-> names,
              configured_backups |->
                  [i \in 1..Len(bk_dicts) |-> ConfiguredBackup(bk_dicts[i])]]

-----------------------------------------------------------------------------
(* application.py: Application.run, from bootstrap to the exit, over       *)
(* configuration files that are valid and that are wrong in one place.     *)

MaxOps == 2             \* operations a verb invokes on backends

Tarsnap == Str(<<"t", "a", "r", "s", "n", "a", "p">>)

Weekly == Str(<<"w", "e", "e", "k", "l", "y">>)

ValidPaths == Paths("dict", <<PathEntry(<<"/", "e">>, Str(<<"e">>))>>)

ValidBackend(name) == BackendDict("dict", Tarsnap, Str(name))

ValidBackup(name, backends) ==
    BackupDict("dict", Str(name), ValidPaths, Weekly,
               List([i \in 1..Len(backends) |-> Str(backends[i])]))

K1 == <<"k", "1">>

K2 == <<"k", "2">>

ValidBackends == List(<<ValidBackend(K1), ValidBackend(K2)>>)

FirstBackup == ValidBackup(<<"a">>, <<K1, K2>>)

SecondBackup == ValidBackup(<<"b">>, <<K1>>)

ValidFile == ConfigFile("", TRUE, ValidBackends, List(<<FirstBackup, SecondBackup>>))

\* a file, and what is wrong with it
Defect(defect, file) == [defect |-> defect, file |-> file]

\* the valid file with another second backup
WithBackup(backup_dict) ==
    [ValidFile EXCEPT !.backups = List(<<FirstBackup, backup_dict>>)]

\* the valid file with another second backend
WithBackend(backend_dict) ==
    [ValidFile EXCEPT !.backends = List(<<ValidBackend(K1), backend_dict>>)]

WithTimespec(ts) == WithBackup([SecondBackup EXCEPT !.timespec = ts])

WithPaths(paths) == WithBackup([SecondBackup EXCEPT !.paths = paths])

\* files that load
ValidFiles ==
    { Defect("none", ValidFile),
      Defect("none", WithTimespec(List(<<Str(<<"M", "o">>), Str(<<"f", "r", "i">>)>>))),
      Defect("none", WithTimespec(Str(<<"D", "a", "i", "l", "y">>))),
      Defect("no weekday of that name",
             WithTimespec(List(<<Str(<<"f", "u", "n", "d", "a", "y">>)>>))),
      Defect("no weekday of that name",
             WithTimespec(List(<<Str(<<"m", "o", "n">>),
                                 Str(<<"w", "e", "e", "k", "l", "y">>)>>))),
      Defect("no day at all", WithTimespec(List(<<>>))) }

\* files wrong in one of the ways of a configuration error
DefectiveFiles ==
    { Defect("missing config", [ValidFile EXCEPT !.errno = "ENOENT"]),
      Defect("invalid timespec", WithTimespec(Num)),
      Defect("invalid timespec", WithTimespec(Null)),
      Defect("invalid timespec", WithTimespec(List(<<Weekly, Num>>))),
      Defect("invalid path", WithPaths(Paths("null", <<>>))),
      Defect("invalid path",
             WithPaths(Paths("dict", <<PathEntry(<<"/", "e">>, Num)>>))),
      Defect("invalid path",
             WithPaths(Paths("dict", <<PathEntry(<<"e">>, Str(<<"e">>))>>))),
      Defect("invalid path",
             WithPaths(Paths("dict", <<PathEntry(<<"/", "e">>, Str(<<>>))>>))),
      Defect("invalid path",
             WithPaths(Paths("dict",
                 <<PathEntry(<<"/", "e">>, Str(<<"e", "/", "f">>))>>))),
      Defect("invalid path",
             WithPaths(Paths("dict",
                 <<PathEntry(<<"/", "e">>, Str(<<".", ".">>))>>))),
      Defect("invalid path",
             WithPaths(Paths("dict",
                 <<PathEntry(<<"/", "e">>, Str(<<"e">>)),
                   PathEntry(<<"/", "f">>, Str(<<"e">>))>>))),
      Defect("duplicate backup name", WithBackup(ValidBackup(<<"a">>, <<K2>>))),
      Defect("unknown backend reference",
             WithBackup(ValidBackup(<<"b">>, <<K1, <<"k", "3">>>>))),
      Defect("unknown backend type",
             WithBackend(BackendDict("dict", Str(<<"t", "a", "r">>), Str(K2)))),
      Defect("unknown backend type",
             WithBackend(BackendDict("dict", Null, Str(K2)))) }

\* files wrong in another way
OtherFiles ==
    { Defect("unreadable config", [ValidFile EXCEPT !.errno = "EACCES"]),
      Defect("not JSON", [ValidFile EXCEPT !.json = FALSE]),
      Defect("no list of backends", [ValidFile EXCEPT !.backends = Null]),
      Defect("no list of backups", [ValidFile EXCEPT !.backups = Null]),
      Defect("backend not a dictionary",
             WithBackend(BackendDict("str", Null, Null))),
      Defect("backend without a name",
             WithBackend(BackendDict("dict", Tarsnap, Absent))),
      Defect("backend with a null name",
             WithBackend(BackendDict("dict", Tarsnap, Null))),
      Defect("backup not a dictionary",
             WithBackup([SecondBackup EXCEPT !.type = "str"])),
      Defect("backup without a name",
             WithBackup([SecondBackup EXCEPT !.name = Null])),
      Defect("no list of backends in a backup",
             WithBackup([SecondBackup EXCEPT !.backends = Null])) }

\* the verbs of run, and "None" for no verb
Verbs == {"backup", "list", "list-configured-backups", "list-backends",
          "restore", "prune", "version", "None"}

\* the operations a verb invokes on the backends of the backups
OperationsOf(verb) ==
    CASE verb = "backup"  -> {"perform"}
      [] verb = "list"    -> {"get_primed_list_token"}
      [] verb = "restore" -> {"existing_archives_for_name", "restore"}
      [] verb = "prune"   -> {"get_primed_list_token", "destroy"}
      [] OTHER            -> {}

RunInit ==
    /\ LateIdle
    /\ SchedIdle
    /\ FlowIdle
    /\ RestoreIdle
    /\ EngineIdle
    /\ PruneIdle
    /\ SpecifierIdle
    /\ StoreIdle
    /\ utcoffset = 60 * 60
    /\ configured_backups = <<>>
    /\ run_config_file \in ValidFiles \cup DefectiveFiles \cup OtherFiles
    /\ run_verb \in Verbs
    /\ run_pc = "start"
    /\ run_config = NoConfig
    /\ run_raised = NotRaised
    /\ run_ops = <<>>
    /\ state_written = FALSE
    /\ run_ok = <<>>
    /\ exit_status = <<>>
    /\ finalized = FALSE

\* self.bootstrap()
run_bootstrap ==
    /\ run_pc = "start"
    /\ run_pc' = "bootstrapped"
    /\ UNCHANGED <<schedVars, flowVars, restoreVars, lateVars, engineVars,
                   pruneVars,
                   specifierVars, storeVars, run_config_file, run_verb,
                   run_config, run_raised, run_ops, state_written, run_ok,
                   exit_status, finalized>>

\* run going on to the verb whatever load_config raised
after_load_config_ignoring(raised_by_load) == "loaded"

\* run, lines 195-196: where it is after load_config
after_load_config(raised_by_load) ==
    IF raised_by_load # NotRaised THEN "raised" ELSE "loaded"

\* self.load_config()
run_load_config ==
    /\ run_pc = "bootstrapped"
    /\ run_config' = Config(run_config_file.file)
    /\ run_raised' = run_config'.raised
    /\ run_pc' = after_load_config(run_config'.raised)
    /\ UNCHANGED <<schedVars, flowVars, restoreVars, lateVars, engineVars,
                   pruneVars,
                   specifierVars, storeVars, run_config_file, run_verb,
                   run_ops, state_written, run_ok, exit_status, finalized>>

\* run, lines 197-201: no verb is logged and ok is False; a verb is called
run_dispatch_verb ==
    /\ run_pc = "loaded"
    /\ IF run_verb = "None"
       THEN run_ok' = <<FALSE>> /\ run_pc' = "returned"
       ELSE run_ok' = run_ok /\ run_pc' = "verb"
    /\ UNCHANGED <<schedVars, flowVars, restoreVars, lateVars, engineVars,
                   pruneVars,
                   specifierVars, storeVars, run_config_file, run_verb,
                   run_config, run_raised, run_ops, state_written,
                   exit_status, finalized>>

\* the verb invokes an operation on a backend of a configured backup
run_backend_operation ==
    /\ run_pc = "verb"
    /\ Len(run_ops) < MaxOps
    /\ \E op \in OperationsOf(run_verb),
          i \in 1..Len(run_config.configured_backups) :
          \E j \in 1..Len(run_config.configured_backups[i].backends) :
             run_ops' = Append(run_ops,
                 [op      |-> op,
                  backup  |-> run_config.configured_backups[i].name,
                  backend |-> run_config.configured_backups[i].backends[j]])
    /\ UNCHANGED <<schedVars, flowVars, restoreVars, lateVars, engineVars,
                   pruneVars,
                   specifierVars, storeVars, run_config_file, run_verb,
                   run_pc, run_config, run_raised, state_written, run_ok,
                   exit_status, finalized>>

\* perform_backups ends with note_successful_backups, which saves the
\* state, and returns None
run_note_successful_backups ==
    /\ run_pc = "verb"
    /\ run_verb = "backup"
    /\ state_written' = TRUE
    /\ run_ok' = <<>>
    /\ run_pc' = "returned"
    /\ UNCHANGED <<schedVars, flowVars, restoreVars, lateVars, engineVars,
                   pruneVars,
                   specifierVars, storeVars, run_config_file, run_verb,
                   run_config, run_raised, run_ops, exit_status, finalized>>

\* another verb returns: restore what archive.restore returned, the others
\* None
run_verb_returns ==
    /\ run_pc = "verb"
    /\ run_verb # "backup"
    /\ IF run_verb = "restore"
       THEN run_ok' \in {<<TRUE>>, <<FALSE>>}
       ELSE run_ok' = <<>>
    /\ run_pc' = "returned"
    /\ UNCHANGED <<schedVars, flowVars, restoreVars, lateVars, engineVars,
                   pruneVars,
                   specifierVars, storeVars, run_config_file, run_verb,
                   run_config, run_raised, run_ops, state_written,
                   exit_status, finalized>>

\* restore_backup raises error.Error
run_verb_raises ==
    /\ run_pc = "verb"
    /\ run_verb = "restore"
    /\ run_raised' = Raised("Error", "restore_backup")
    /\ run_pc' = "raised"
    /\ UNCHANGED <<schedVars, flowVars, restoreVars, lateVars, engineVars,
                   pruneVars,
                   specifierVars, storeVars, run_config_file, run_verb,
                   run_config, run_ops, state_written, run_ok, exit_status,
                   finalized>>

\* run, lines 202-209: sys.exit(0 if ok or ok is None else 1), and
\* sys.exit(1) in the two except clauses
run_exit ==
    /\ run_pc \in {"returned", "raised"}
    /\ exit_status' = IF run_pc = "raised" THEN <<1>>
                      ELSE IF run_ok = <<FALSE>> THEN <<1>>
                      ELSE <<0>>
    /\ run_pc' = "exiting"
    /\ UNCHANGED <<schedVars, flowVars, restoreVars, lateVars, engineVars,
                   pruneVars,
                   specifierVars, storeVars, run_config_file, run_verb,
                   run_config, run_raised, run_ops, state_written, run_ok,
                   finalized>>

\* finally: self.finalize()
run_finalize ==
    /\ run_pc = "exiting"
    /\ finalized' = TRUE
    /\ run_pc' = "exited"
    /\ UNCHANGED <<schedVars, flowVars, restoreVars, lateVars, engineVars,
                   pruneVars,
                   specifierVars, storeVars, run_config_file, run_verb,
                   run_config, run_raised, run_ops, state_written, run_ok,
                   exit_status>>

RunNext ==
    \/ run_bootstrap
    \/ run_load_config
    \/ run_dispatch_verb
    \/ run_backend_operation
    \/ run_note_successful_backups
    \/ run_verb_returns
    \/ run_verb_raises
    \/ run_exit
    \/ run_finalize

SpecRun == RunInit /\ [][RunNext]_vars

\* the exceptions that are configuration errors
ConfigurationErrors ==
    {"NoConfigError", "InvalidConfigError", "BackendConfigurationError"}

\* the ways a file is wrong that are named as configuration errors
ConfigurationDefects ==
    {"missing config", "invalid timespec", "invalid path",
     "duplicate backup name", "unknown backend reference",
     "unknown backend type"}

\* C20: a file wrong in one of the ways named makes load_config raise a
\* configuration error; and once load_config has raised one, no operation
\* has been or is invoked on a backend, the state file is not written, and
\* the invocation goes on to exit with status 1.
C20_ConfigurationErrorAborts ==
    /\ (run_pc \notin {"start", "bootstrapped"}
          /\ run_config_file.defect \in ConfigurationDefects) =>
          run_raised.type \in {"NoConfigError", "InvalidConfigError"}
    /\ run_raised.type \in ConfigurationErrors =>
          /\ run_ops = <<>>
          /\ ~state_written
          /\ run_pc \in {"raised", "exiting", "exited"}
          /\ run_pc = "raised" => ENABLED run_exit
          /\ run_pc = "exiting" => ENABLED run_finalize
          /\ run_pc \in {"exiting", "exited"} => exit_status = <<1>>

\* `backup` was asked for with a file that names a backup twice, and the
\* invocation has exited
C20_Witness ==
    /\ run_pc = "exited"
    /\ run_verb = "backup"
    /\ run_config_file.defect = "duplicate backup name"
    /\ run_raised.type = "InvalidConfigError"
    /\ exit_status = <<1>>

-----------------------------------------------------------------------------
(* The pruning engine's tiers, checked under SpecPrunable.                 *)

\* the archives in the order the loop takes them
TakenInOrder == SortedMostRecentFirst(engine_archives, utcoffset)

\* the archives of a tier that the loop had saved when it came to a
TakenBefore(tier, a) ==
    LET sorted == TakenInOrder
        pos(x) == CHOOSE i \in 1..Len(sorted) : sorted[i] = x
    IN  {x \in tier : pos(x) < pos(a)}

\* the gate of a tier as the loop found it at a: the count is not reached
\* and the bucket of a is free
GateOpen(tier, count, Same(_, _), a) ==
    LET before == TakenBefore(tier, a)
    IN  /\ count = Unbounded \/ Cardinality(before) < count
        /\ \A x \in before : ~Same(x, a)

\* C27: every archive that is not fresh is in exactly one of the daily,
\* weekly and monthly representatives and the prunable list: daily exactly
\* when the daily gate was open for it, weekly exactly when the daily gate
\* was shut and the weekly open, monthly exactly when those two were shut
\* and the monthly open, and prunable exactly when all three were shut.
C27_TiersInPriorityOrder ==
    epc = "returned" =>
        LET D == Values(engine.daily_saved)
            W == Values(engine.weekly_saved)
            M == Values(engine.monthly_saved)
            daily(a)   == GateOpen(D, pruning_config.daily_count, SameDay, a)
            weekly(a)  == GateOpen(W, pruning_config.weekly_count, SameWeek, a)
            monthly(a) == GateOpen(M, pruning_config.monthly_count, SameMonth, a)
        IN  \A a \in ListedArchives :
               /\ IsFresh(a) =>
                     a \notin D \cup W \cup M \cup PrunableSet
               /\ ~IsFresh(a) =>
                     /\ Cardinality({T \in {D, W, M, PrunableSet} : a \in T}) = 1
                     /\ a \in D <=> daily(a)
                     /\ a \in W <=> ~daily(a) /\ weekly(a)
                     /\ a \in M <=> ~daily(a) /\ ~weekly(a) /\ monthly(a)
                     /\ a \in PrunableSet <=>
                           ~daily(a) /\ ~weekly(a) /\ ~monthly(a)

\* an archive is the weekly representative though the daily count was not
\* reached, its day having its representative, and another of that day is
\* the monthly one and a fourth is pruned
C27_Witness ==
    /\ epc = "returned"
    /\ pruning_config = PruningConfig(2, 1, 1)
    /\ \E d \in Values(engine.daily_saved), w \in Values(engine.weekly_saved),
          m \in Values(engine.monthly_saved), p \in PrunableSet :
          SameDay(d, w) /\ SameDay(d, m) /\ SameDay(d, p)
    /\ Cardinality(Values(engine.daily_saved)) = 1

\* C28: a daily representative is at least as recent as every archive of
\* its day that is not fresh; a weekly (monthly) one is at least as recent
\* as every archive of its week (month) that is not fresh and is in no tier
\* before; and no pruned archive is more recent than a representative of
\* its day, week or month.
C28_RepresentativeIsNewest ==
    epc = "returned" =>
        LET D == Values(engine.daily_saved)
            W == Values(engine.weekly_saved)
            M == Values(engine.monthly_saved)
            old == {a \in ListedArchives : ~IsFresh(a)}
        IN  /\ \A d \in D, a \in old :
                  SameDay(a, d) => a.timestamp <= d.timestamp
            /\ \A w \in W, a \in old \ D :
                  SameWeek(a, w) => a.timestamp <= w.timestamp
            /\ \A m \in M, a \in old \ (D \cup W) :
                  SameMonth(a, m) => a.timestamp <= m.timestamp
            /\ \A p \in PrunableSet :
                  /\ \A d \in D : SameDay(p, d) => p.timestamp <= d.timestamp
                  /\ \A w \in W : SameWeek(p, w) => p.timestamp <= w.timestamp
                  /\ \A m \in M : SameMonth(p, m) => p.timestamp <= m.timestamp

\* the listing gives the oldest archive of a day first, and the newest of
\* the day is its representative while older ones are the weekly one and
\* pruned
C28_Witness ==
    /\ epc = "returned"
    /\ Len(engine_archives) >= 3
    /\ engine_archives[1].timestamp < engine_archives[2].timestamp
    /\ \E d \in Values(engine.daily_saved), w \in Values(engine.weekly_saved),
          p \in PrunableSet :
          /\ SameDay(d, w) /\ SameDay(d, p)
          /\ w.timestamp < d.timestamp /\ p.timestamp < w.timestamp
          /\ engine_archives[1] = p

-----------------------------------------------------------------------------
(* Backup.perform and the invocations that follow one another, checked     *)
(* under Spec.                                                             *)

\* the k-th backend.perform call made for a backup
KthCallOf(name, k) == calls[KthOf(CallsOf(name), k)]

\* C26: within one Backup.perform, backends are invoked in their configured
\* order and, once one backend's perform has returned failure, no later
\* backend of that backup is invoked in that run.
C26_BackendsInOrderUntilFailure ==
    \A name \in Names(backups) :
        LET n == Cardinality(CallsOf(name))
        IN  /\ n <= Len(BackendsOf(name))
            /\ \A k \in 1..n :
                  /\ KthCallOf(name, k).backend = BackendsOf(name)[k]
                  /\ k < n => KthCallOf(name, k).ok

\* a backup with two backends returned after its first backend failed, the
\* second never invoked, and another backup had both its backends invoked
C26_Witness ==
    /\ \E k \in 1..Len(returned) :
          /\ Len(BackendsOf(returned[k].backup)) = 2
          /\ Cardinality(CallsOf(returned[k].backup)) = 1
          /\ ~KthCallOf(returned[k].backup, 1).ok
    /\ \E k \in 1..Len(returned) :
          /\ Cardinality(CallsOf(returned[k].backup)) = 2
          /\ KthCallOf(returned[k].backup, 1).backend = "k2"
          /\ KthCallOf(returned[k].backup, 2).backend = "k1"

MaxLater == 2           \* days between an invocation and the next

\* when the next invocation may run: later than now, the same day or up to
\* MaxLater days on
LaterNows ==
    { Datetime(now.day + d, s, now.us) :
          d \in 0..MaxLater, s \in {now.sec + 1, SecondsPerDay - 1} }

\* what backups_due returns at the next invocation: the configuration is
\* unchanged, the state file is read as it is on disk
DueAtNextInvocation(later) ==
    backups_due(configured_backups, statefile, config_mtime, state_mtime,
                later, utcoffset)

\* what backups_due returns in this invocation when it is reached
DueInThisInvocation ==
    backups_due(configured_backups, statefile_before, config_mtime,
                state_mtime, now, utcoffset)

Range(seq) == {seq[i] : i \in 1..Len(seq)}

\* C22: if a `backup` invocation stops (crashes) at any point before the
\* run-state is written, the persisted RunState is exactly what it was before
\* the invocation, so every backup that was due in it, including those whose
\* backends had already succeeded, is due again at the next invocation.
C22_CrashKeepsStateAndDueBackups ==
    pc = "crashed" =>
        /\ statefile = statefile_before
        /\ \A later \in LaterNows :
              /\ Range(DueInThisInvocation) \subseteq
                     Range(DueAtNextInvocation(later))
              /\ Range(backups) \subseteq Range(DueAtNextInvocation(later))

\* the invocation stopped in its loop after a backup had returned success,
\* the backups being due by their schedule and one of them having an entry
C22_Witness ==
    /\ pc = "crashed"
    /\ ~(config_mtime > state_mtime)
    /\ backup_successes # <<>>
    /\ \E c \in 1..Len(calls) : calls[c].ok
    /\ \E i \in 1..Len(backups) : backups[i].name \in DOMAIN statefile

\* the backups whose perform returned failure in this invocation
FailedBackups == {returned[k].backup : k \in {j \in 1..Len(returned) :
                                                 ~returned[j].ok}}

\* the name is due by its schedule in this invocation
DueBySchedule(name) ==
    \E i \in 1..Len(configured_backups) :
        /\ configured_backups[i].name = name
        /\ should_run(configured_backups[i].timespec,
                      last_run_of_backup(statefile_before, name, utcoffset),
                      now)

\* C29: a backup that was returned by backups_due in one `backup` invocation
\* and whose perform failed is returned by backups_due again in the next
\* invocation (later now, unchanged configuration, run-state as persisted by
\* the first invocation), whether it was due by its schedule or because the
\* configuration was newer than the state file.
C29_FailedBackupDueAgain ==
    pc = "done" =>
        \A name \in FailedBackups : \A later \in LaterNows :
            name \in Names(DueAtNextInvocation(later))

\* the part of C29 about the backups that were due by their schedule
C29_FailedScheduledBackupDueAgain ==
    pc = "done" =>
        \A name \in FailedBackups : \A later \in LaterNows :
            DueBySchedule(name) => name \in Names(DueAtNextInvocation(later))

\* a backup due by its schedule failed and the state was saved
C29_ScheduledWitness ==
    /\ pc = "done"
    /\ \E name \in FailedBackups : DueBySchedule(name)

-----------------------------------------------------------------------------
(* The timespec of a loaded backup, checked under SpecRun.                 *)

\* load_config has returned without raising
ConfigLoaded ==
    run_pc \notin {"start", "bootstrapped"} /\ run_config.raised = NotRaised

\* next_due_run_part: `assert tgt is not None` holds for the part, which is
\* MONTHLY, or WEEKLY (rewritten to MONDAY), or one of WEEKDAYS
next_due_run_part_asserts(part) ==
    part = MONTHLY \/ part = WEEKLY \/ part \in WeekdayTokens

\* C23: a validated timespec is always a non-empty set containing only
\* recognized tokens (Monday..Sunday, Weekly, Monthly): validate_timespec
\* rejects with a configuration error every timespec that is empty or
\* contains an unrecognized token, so next_due_run's assertion that every
\* token yields a candidate never fails on a loaded backup.
C23_LoadedTimespecRecognised ==
    ConfigLoaded =>
        \A i \in 1..Len(run_config.configured_backups) :
            LET ts == run_config.configured_backups[i].timespec
            IN  /\ ts # {}
                /\ ts \subseteq Tokens
                /\ \A part \in ts : next_due_run_part_asserts(part)

-----------------------------------------------------------------------------
(* backend_types.py: the registry of backend types.                        *)

MaxRegistryOps == 5     \* calls made on the registry

RegistryNames == {"tarsnap", "mytype"}

RegistryTypes == {"TarsnapBackend", "MyNewBackend"}

\* the mapping with the key deleted
Without(types, name) == [n \in (DOMAIN types) \ {name} |-> types[n]]

\* the mapping with the key assigned
With(types, name, type) ==
    [n \in (DOMAIN types) \cup {name} |-> IF n = name THEN type ELSE types[n]]

\* register_backend_type assigning whatever the mapping holds
register_backend_type_overwriting(types, type, name) ==
    [raised |-> NotRaised, types |-> With(types, name, type)]

\* register_backend_type(type, name): what it raises, and the mapping after
register_backend_type(types, type, name) ==
    IF name \in DOMAIN types
    THEN [raised |-> Raised("Exception", "Backend name collision"),
          types  |-> types]
    ELSE [raised |-> NotRaised, types |-> With(types, name, type)]

\* unregister_backend_type(name): del _BACKEND_TYPES[name]
unregister_backend_type(types, name) ==
    IF name \in DOMAIN types
    THEN [raised |-> NotRaised, types |-> Without(types, name)]
    ELSE [raised |-> Raised("KeyError", name), types |-> types]

\* backend_type(name): _BACKEND_TYPES.get(name, None)
backend_type(types, name) == IF name \in DOMAIN types THEN types[name] ELSE None

\* a call on the registry as the log keeps it: the mapping before and after
Call(op, name, type, r, ret, before) ==
    [op |-> op, name |-> name, type |-> type, raised |-> r.raised,
     returned |-> ret, before |-> before, after |-> r.types]

RegistryInit ==
    /\ SchedIdle
    /\ FlowIdle
    /\ RestoreIdle
    /\ EngineIdle
    /\ PruneIdle
    /\ SpecifierIdle
    /\ StoreIdle
    /\ RunIdle
    /\ utcoffset = 60 * 60
    /\ configured_backups = <<>>
    /\ StagingIdle
    /\ ListIdle
    /\ BACKEND_TYPES = <<>>       \* _BACKEND_TYPES = {}
    /\ registry_log = <<>>

earlyVars == <<schedVars, flowVars, restoreVars, engineVars, pruneVars,
               specifierVars, storeVars, runVars>>

registry_register ==
    /\ Len(registry_log) < MaxRegistryOps
    /\ \E type \in RegistryTypes, name \in RegistryNames :
          LET r == register_backend_type(BACKEND_TYPES, type, name)
          IN  /\ BACKEND_TYPES' = r.types
              /\ registry_log' = Append(registry_log,
                     Call("register", name, type, r, None, BACKEND_TYPES))
    /\ UNCHANGED <<earlyVars, stagingVars, listVars>>

registry_unregister ==
    /\ Len(registry_log) < MaxRegistryOps
    /\ \E name \in RegistryNames :
          LET r == unregister_backend_type(BACKEND_TYPES, name)
          IN  /\ BACKEND_TYPES' = r.types
              /\ registry_log' = Append(registry_log,
                     Call("unregister", name, None, r, None, BACKEND_TYPES))
    /\ UNCHANGED <<earlyVars, stagingVars, listVars>>

registry_backend_type ==
    /\ Len(registry_log) < MaxRegistryOps
    /\ \E name \in RegistryNames :
          /\ registry_log' = Append(registry_log,
                 Call("backend_type", name, None,
                      [raised |-> NotRaised, types |-> BACKEND_TYPES],
                      backend_type(BACKEND_TYPES, name), BACKEND_TYPES))
    /\ UNCHANGED <<earlyVars, stagingVars, listVars, BACKEND_TYPES>>

RegistryNext ==
    \/ registry_register
    \/ registry_unregister
    \/ registry_backend_type

SpecRegistry == RegistryInit /\ [][RegistryNext]_vars

\* the calls before the k-th that registered the name and have not been
\* undone by an unregister since
StandingRegistrations(k, name) ==
    {i \in 1..(k - 1) :
        /\ registry_log[i].op = "register"
        /\ registry_log[i].name = name
        /\ registry_log[i].raised = NotRaised
        /\ \A j \in (i + 1)..(k - 1) :
              ~(registry_log[j].op = "unregister" /\ registry_log[j].name = name)}

Latest(S) == CHOOSE i \in S : \A j \in S : j <= i

\* C24: after any sequence of register and unregister operations,
\* backend_type(name) returns the type most recently registered under that
\* name if it has not been unregistered since, and None otherwise;
\* registering a name that is currently registered raises and leaves the
\* existing mapping unchanged.
C24_RegistryResolvesLatest ==
    \A k \in 1..Len(registry_log) :
        LET call     == registry_log[k]
            standing == StandingRegistrations(k, call.name)
        IN  /\ call.op = "backend_type" =>
                  call.returned =
                      IF standing = {} THEN None
                      ELSE registry_log[Latest(standing)].type
            /\ (call.op = "register" /\ standing # {}) =>
                  /\ call.raised # NotRaised
                  /\ call.after = call.before
            /\ (call.op = "register" /\ standing = {}) =>
                  call.raised = NotRaised

\* a name was registered, registered again in vain, resolved, unregistered
\* and resolved again
C24_Witness ==
    /\ \E k \in 1..Len(registry_log) :
          /\ registry_log[k].op = "register"
          /\ registry_log[k].raised # NotRaised
    /\ \E k \in 1..Len(registry_log) :
          /\ registry_log[k].op = "backend_type"
          /\ registry_log[k].returned = "MyNewBackend"
    /\ \E k \in 1..(Len(registry_log) - 1) :
          /\ registry_log[k].op = "unregister"
          /\ registry_log[k].raised = NotRaised
          /\ registry_log[k + 1].op = "backend_type"
          /\ registry_log[k + 1].name = registry_log[k].name
          /\ registry_log[k + 1].returned = None

-----------------------------------------------------------------------------
(* tarsnap.py: TarsnapBackend.perform and its scratch directory.           *)

MaxPaths == 2           \* items in the paths of a perform

\* the items paths may hold: a path and the name it is backed up under;
\* perform itself does not require the names to be distinct
PathItems ==
    { [path |-> "/uno", name |-> "one"], [path |-> "/dos", name |-> "two"],
      [path |-> "/tres", name |-> "one"], [path |-> "/foo", name |-> "bar"] }

\* paths.items(): up to MaxPaths items of distinct paths, in any order
PathDicts ==
    UNION { { items \in [1..n -> PathItems] :
                \A i, j \in 1..n : i # j => items[i].path # items[j].path } :
            n \in 0..MaxPaths }

\* the exit statuses of the external tool
ExitCodes == {0, 1, 2}

\* a directory: whether it exists, and its links, name -> target
Directory(exists, links) == [exists |-> exists, links |-> links]

\* what the finally clause goes on to when it is done
Pending(exception, ret) == [raised |-> exception, ret |-> ret]

\* the clean-up skipped when the tool failed
after_wait_leaving_on_failure(code) ==
    IF code # 0 THEN "returned" ELSE "cleaning"

\* lines 110-123: `return False` and `return True` are both inside the try,
\* so that the finally clause runs before either
after_wait(code) == "cleaning"

PerformInit ==
    /\ SchedIdle
    /\ FlowIdle
    /\ RestoreIdle
    /\ EngineIdle
    /\ PruneIdle
    /\ SpecifierIdle
    /\ StoreIdle
    /\ RunIdle
    /\ RegistryIdle
    /\ ListIdle
    /\ utcoffset = 60 * 60
    /\ configured_backups = <<>>
    /\ perform_paths \in PathDicts
    /\ tmpdir = Directory(FALSE, <<>>)
    /\ perform_pc = "start"
    /\ perform_i = 0
    /\ perform_code = <<>>
    /\ perform_pending = Pending(NotRaised, <<>>)
    /\ perform_ret = <<>>

\* tmpdir = tempfile.mkdtemp()
perform_mkdtemp ==
    /\ perform_pc = "start"
    /\ tmpdir' = Directory(TRUE, <<>>)
    /\ perform_pc' = "linking"
    /\ perform_i' = 1
    /\ UNCHANGED <<earlyVars, registryVars, listVars, perform_paths, perform_code,
                   perform_pending, perform_ret>>

\* os.symlink(path, os.path.join(tmpdir, name)): FileExistsError when the
\* name is taken, and the finally clause is entered
perform_symlink ==
    /\ perform_pc = "linking"
    /\ perform_i <= Len(perform_paths)
    /\ LET item == perform_paths[perform_i]
       IN  IF item.name \in DOMAIN tmpdir.links
           THEN /\ perform_pending' =
                       Pending(Raised("FileExistsError", item.name), <<>>)
                /\ perform_pc' = "cleaning"
                /\ perform_i' = 1
                /\ UNCHANGED tmpdir
           ELSE /\ tmpdir' = Directory(TRUE,
                                  With(tmpdir.links, item.name, item.path))
                /\ perform_i' = perform_i + 1
                /\ UNCHANGED <<perform_pc, perform_pending>>
    /\ UNCHANGED <<earlyVars, registryVars, listVars, perform_paths, perform_code,
                   perform_ret>>

\* subprocess.Popen(argv, ...), code = proc.wait(), and the return
\* statement reached
perform_wait ==
    /\ perform_pc = "linking"
    /\ perform_i > Len(perform_paths)
    /\ \E code \in ExitCodes :
          /\ perform_code' = <<code>>
          /\ perform_pending' = Pending(NotRaised, <<code = 0>>)
          /\ perform_pc' = after_wait(code)
          /\ perform_ret' = IF after_wait(code) = "returned"
                            THEN <<code = 0>> ELSE <<>>
    /\ perform_i' = 1
    /\ UNCHANGED <<earlyVars, registryVars, listVars, perform_paths, tmpdir>>

\* finally: os.unlink(os.path.join(tmpdir, name)); ENOENT is passed over
perform_unlink ==
    /\ perform_pc = "cleaning"
    /\ perform_i <= Len(perform_paths)
    /\ LET name == perform_paths[perform_i].name
       IN  tmpdir' = IF name \in DOMAIN tmpdir.links
                     THEN Directory(TRUE, Without(tmpdir.links, name))
                     ELSE tmpdir
    /\ perform_i' = perform_i + 1
    /\ UNCHANGED <<earlyVars, registryVars, listVars, perform_paths, perform_pc,
                   perform_code, perform_pending, perform_ret>>

\* finally: os.rmdir(tmpdir), which raises when the directory is not empty;
\* then the pending return or exception takes place
perform_rmdir ==
    /\ perform_pc = "cleaning"
    /\ perform_i > Len(perform_paths)
    /\ IF DOMAIN tmpdir.links = {}
       THEN /\ tmpdir' = Directory(FALSE, <<>>)
            /\ perform_pc' = IF perform_pending.raised # NotRaised
                             THEN "raised" ELSE "returned"
            /\ perform_ret' = perform_pending.ret
            /\ UNCHANGED perform_pending
       ELSE /\ perform_pending' = Pending(Raised("OSError", "ENOTEMPTY"), <<>>)
            /\ perform_pc' = "raised"
            /\ UNCHANGED <<tmpdir, perform_ret>>
    /\ UNCHANGED <<earlyVars, registryVars, listVars, perform_paths, perform_i,
                   perform_code>>

PerformNext ==
    \/ perform_mkdtemp
    \/ perform_symlink
    \/ perform_wait
    \/ perform_unlink
    \/ perform_rmdir

SpecPerform == PerformInit /\ [][PerformNext]_vars

\* C21: TarsnapBackend.perform returns true when the external tool exits
\* with status 0 and false (without raising) when it exits non-zero, and in
\* both cases the scratch staging directory of symlinks it created no
\* longer exists when perform returns.
C21_PerformReturnsAndCleansUp ==
    perform_code # <<>> =>
        /\ perform_pc \in {"cleaning", "returned"}
        /\ perform_pc = "cleaning" => ENABLED (perform_unlink \/ perform_rmdir)
        /\ perform_pc = "returned" =>
              /\ perform_ret = <<perform_code[1] = 0>>
              /\ ~tmpdir.exists

\* perform has returned False after the tool exited with status 2, having
\* staged two links
C21_Witness ==
    /\ perform_pc = "returned"
    /\ perform_code = <<2>>
    /\ perform_ret = <<FALSE>>
    /\ Len(perform_paths) = 2
    /\ ~tmpdir.exists

-----------------------------------------------------------------------------
(* The `list` verb: application.py list_archives and within_timespec.      *)

\* within_timespec: before and after are <<>> for None, <<datetime>> else
within_timespec(archive, before, after, off) ==
    LET archive_date == ArchiveDatetime(archive, off)
    IN  /\ ~(before # <<>> /\ DtLeq(before[1], archive_date))
        /\ ~(after # <<>> /\ DtLeq(archive_date, after[1]))

\* a line of an archive: "\t\t{i}: {archive}"
Line(i, archive) == [index |-> i, archive |-> archive]

\* the archives numbered after the window has hidden some of them
list_lines_numbered_in_window(archives, before, after, off) ==
    LET shown == SelectSeq(SortedByDatetime(archives, off),
                           LAMBDA a : within_timespec(a, before, after, off))
    IN  [i \in 1..Len(shown) |-> Line(i - 1, shown[i])]

\* list_archives, lines 124-128: the archives sorted by time are
\* enumerated, and the lines of those within the window are written
list_lines(archives, before, after, off) ==
    LET sorted_archives == SortedByDatetime(archives, off)
        enumerated == [i \in 1..Len(sorted_archives) |->
                          Line(i - 1, sorted_archives[i])]
    IN  SelectSeq(enumerated,
                  LAMBDA l : within_timespec(l.archive, before, after, off))

\* Backup.get_all_archives, lines 93-99: the enumerations after the
\* listings of the backends of the backup, from the k-th on
RECURSIVE get_all_archives_enumerations(_, _, _, _)
get_all_archives_enumerations(made, backup, k, primed) ==
    IF k > Len(backup.backends) THEN made
    ELSE get_all_archives_enumerations(
             existing_archives_enumerations(made, backup.backends[k],
                 backup.name,
                 get_all_archives_token(backup.backends[k], primed)),
             backup, k + 1, primed)

\* list_archives, lines 123-128: what is written for the backends of a
\* backup, from the k-th on, each line with its backup and backend
RECURSIVE list_backup_lines(_, _, _, _, _, _)
list_backup_lines(backup, k, tokens, before, after, off) ==
    IF k > Len(backup.backends) THEN <<>>
    ELSE LET pair  == <<backup.name, backup.backends[k]>>
             lines == list_lines(tokens[pair], before, after, off)
         IN  [i \in 1..Len(lines) |->
                 [backup |-> pair[1], backend |-> pair[2],
                  index |-> lines[i].index, archive |-> lines[i].archive]]
             \o list_backup_lines(backup, k + 1, tokens, before, after, off)

\* --before and --after: none, the very time of an archive, and another
Befores(nw) == { <<>>, <<Datetime(nw.day - 1, nw.sec, 0)>>,
                 <<Datetime(nw.day, 0, 0)>> }

Afters(nw) == { <<>>, <<Datetime(nw.day - 1, nw.sec, 0)>>,
                <<Datetime(nw.day - 4, 0, 0)>> }

ListInit ==
    /\ SchedIdle
    /\ FlowIdle
    /\ RestoreIdle
    /\ SpecifierIdle
    /\ StoreIdle
    /\ RunIdle
    /\ RegistryIdle
    /\ StagingIdle
    /\ utcoffset = 60 * 60
    /\ configured_backups = RestoreConfiguration
    /\ engine_archives = <<>>
    /\ pruning_config = None
    /\ engine = None
    /\ epc = "idle"
    /\ local_now = Datetime(BaseDay + 44, 12 * 60 * 60, 0)
    /\ pruning_configuration = <<>>
    /\ store \in StoredArchives(configured_backups, local_now, utcoffset)
    /\ token_map = <<>>
    /\ prune_pc = "idle"
    /\ pb = 0
    /\ pk = 0
    /\ archives_to_prune = <<>>
    /\ pd = 0
    /\ destroy_calls = <<>>
    /\ enumerations = <<>>
    /\ opt_before \in Befores(local_now)
    /\ opt_after \in Afters(local_now)
    /\ list_pc = "start"
    /\ lb = 0
    /\ printed = <<>>

\* the variables no step of list_archives changes
listUnchanged ==
    <<schedVars, flowVars, restoreVars, engineVars, specifierVars, storeVars,
      runVars, registryVars, stagingVars, pruning_configuration, store,
      prune_pc, pb, pk, archives_to_prune, pd, destroy_calls, opt_before,
      opt_after>>

\* list_archives, line 119: get_backend_to_primed_list_token_map
list_get_backend_to_primed_list_token_map ==
    /\ list_pc = "start"
    /\ token_map' = store
    /\ enumerations' = enumerations \o primed_list_tokens(configured_backups)
    /\ lb' = 1
    /\ list_pc' = "loop"
    /\ UNCHANGED <<listUnchanged, printed>>

\* list_archives, lines 121-128: the archives of a backup are listed and
\* written, backend by backend
list_backup ==
    /\ list_pc = "loop"
    /\ lb <= Len(configured_backups)
    /\ enumerations' = get_all_archives_enumerations(enumerations,
                           configured_backups[lb], 1, PrimedBackends)
    /\ printed' = printed \o list_backup_lines(configured_backups[lb], 1,
                                 token_map, opt_before, opt_after, utcoffset)
    /\ lb' = lb + 1
    /\ UNCHANGED <<listUnchanged, token_map, list_pc>>

\* list_archives returns
list_archives_done ==
    /\ list_pc = "loop"
    /\ lb > Len(configured_backups)
    /\ list_pc' = "done"
    /\ UNCHANGED <<listUnchanged, token_map, enumerations, lb, printed>>

ListNext ==
    \/ list_get_backend_to_primed_list_token_map
    \/ list_backup
    \/ list_archives_done

SpecList == ListInit /\ [][ListNext]_vars

\* the `list` verb or the `prune` verb, whichever was asked for
ListingInit == PruneInit \/ ListInit

ListingNext == PruneNext \/ ListNext

SpecListing == ListingInit /\ [][ListingNext]_vars

\* the backends that some configured backup refers to
ReferencedBackends ==
    UNION { {configured_backups[i].backends[k] :
                k \in 1..Len(configured_backups[i].backends)} :
            i \in 1..Len(configured_backups) }

\* the enumerations issued on a backend
EnumerationsOf(backend) ==
    {i \in 1..Len(enumerations) : enumerations[i].backend = backend}

\* C25: in the list and prune flows, exactly one remote enumeration is
\* issued per distinct backend referenced by any configured backup, all of
\* them before the first backup is iterated, and the per-backup listings
\* are then served from the primed snapshot without any further remote
\* enumeration, however many backups share a backend.
C25_OneEnumerationPerBackend ==
    IF prune_pc = "start" \/ list_pc = "start"
    THEN enumerations = <<>>
    ELSE /\ \A backend \in ReferencedBackends :
               Cardinality(EnumerationsOf(backend)) = 1
         /\ \A i \in 1..Len(enumerations) :
               /\ enumerations[i].backend \in ReferencedBackends
               /\ enumerations[i].backup = None
         /\ destroy_calls = <<>> => token_map = store

\* the prune flow is over: two backups share k1, archives of both were
\* destroyed, and there have been two enumerations
C25_Witness ==
    /\ prune_pc = "done"
    /\ Len(enumerations) = 2
    /\ \E c, d \in 1..Len(destroy_calls) :
          /\ destroy_calls[c].backend = "k1"
          /\ destroy_calls[d].backend = "k1"
          /\ destroy_calls[c].backup # destroy_calls[d].backup


\* the lines written for a (backup, backend) pair
LinesOf(pair) ==
    {l \in 1..Len(printed) :
        printed[l].backup = pair[1] /\ printed[l].backend = pair[2]}

\* the pairs whose archives list_archives has written
PairsListed ==
    {pair \in Pairs(configured_backups) :
        \E i \in 1..(lb - 1) : configured_backups[i].name = pair[1]}

\* restore_backup given the ordinal i for the pair, the listing being what
\* it was for `list`: the archives it goes on to restore
RestoredByOrdinal(pair, i) ==
    LET ordinal == Specifier("ordinal", i, 0, NoDatetime, 0)
        ms == CollectMatches(ordinal, SortedByDatetime(store[pair], utcoffset),
                             1, utcoffset)
    IN  restore_outcome(ms, "ordinal").restored

\* C30: for an unchanged archive listing of a (backup, backend) pair, the
\* index that `list` prints for an archive is the ordinal that selects that
\* same archive in `restore`: both number archives by 0-based position in
\* the full ascending-by-time ordering, and a --before/--after window in
\* `list` hides archives without renumbering those that remain.
C30_ListIndexIsRestoreOrdinal ==
    /\ \A l \in 1..Len(printed) :
          LET line   == printed[l]
              sorted == SortedByDatetime(store[<<line.backup, line.backend>>],
                                         utcoffset)
          IN  /\ line.index \in 0..(Len(sorted) - 1)
              /\ sorted[line.index + 1] = line.archive
              /\ RestoredByOrdinal(<<line.backup, line.backend>>, line.index)
                    = <<line.archive>>
    /\ \A pair \in PairsListed :
          LET sorted == SortedByDatetime(store[pair], utcoffset)
          IN  /\ \A i, j \in 1..Len(sorted) :
                    i < j => DtLeq(ArchiveDatetime(sorted[i], utcoffset),
                                   ArchiveDatetime(sorted[j], utcoffset))
              /\ \A i \in 1..Len(sorted) :
                    within_timespec(sorted[i], opt_before, opt_after, utcoffset)
                       <=> \E l \in LinesOf(pair) :
                              /\ printed[l].index = i - 1
                              /\ printed[l].archive = sorted[i]

\* `list` is over, and for some pair the window hid the oldest archive and
\* the line of the next one was written with the index 1
C30_Witness ==
    /\ list_pc = "done"
    /\ \E l \in 1..Len(printed) :
          /\ printed[l].index = 1
          /\ \A m \in LinesOf(<<printed[l].backup, printed[l].backend>>) :
                printed[m].index # 0

=============================================================================
